---- MODULE Spec2Model ----
(***************************************************************************)
(* Extension subsystem of MYK-Desktop (src-tauri/src/extensions).          *)
(*                                                                         *)
(*   Spec      the control plane: the tauri commands of commands/*.rs      *)
(*             running concurrently over ExtensionState (two tokio         *)
(*             mutexes), the WasmRuntime registry and the extensions       *)
(*             directory.                                                  *)
(*   SpecHost  one guest call of the host import host_http_get.            *)
(*   SpecRate  the RateLimiter of the HTTP sandbox under a clock.          *)
(*                                                                         *)
(* Strings the code inspects character by character (version, checksum,    *)
(* host) are sequences of one-character strings; an Option is a sequence   *)
(* of length 0 or 1.                                                       *)
(***************************************************************************)
EXTENDS Integers, Sequences, FiniteSets, TLC

VARIABLES
    rootDir,      \* the extensions directory exists
    disk,         \* per directory name: None or Some([manifest, wasm])
    modules,      \* WasmRuntime.modules: id -> None or Some(compiled bytes)
    runtimeLock,  \* ExtensionState.runtime (tokio Mutex): holder or NoProc
    loaderLock,   \* ExtensionState.loader (tokio Mutex): holder or NoProc
    modulesLock,  \* WasmRuntime.modules (std Mutex): holder or NoProc
    pc,           \* per command task: where it is suspended
    cmd,          \* per command task: the command it runs or ran last
    arg,          \* per command task: the command's arguments
    ext,          \* load_extension's local `ext` (the discovered descriptor)
    is_loaded,    \* reload_extension's local `is_loaded`
    module,       \* execute_function's local `module` (the clone)
    ret,          \* per command task: what its last command returned
    issued,       \* per command task: number of commands it has been given
    hpc,          \* host_http_get: position in the host function
    hurl,         \* host_http_get: the bytes the guest passed as URL
    requests,     \* host_http_get: URLs of the requests dispatched
    hret,         \* host_http_get: the i32 returned to the guest
    hcalls,       \* host_http_get: number of calls made by the guest
    hlen,         \* host_http_get: payload length of the buffer returned
    spc,          \* HttpSandbox: position in validate_and_request
    surl,         \* HttpSandbox: the url_str of the call
    wire,         \* HttpSandbox: URLs the client sent a request to in this call
    sret,         \* HttpSandbox: what the last call returned
    hops,         \* HttpSandbox: redirects the client followed in this call
    slen,         \* HttpSandbox: Content-Length of the response being read
    sread,        \* HttpSandbox: whether this call read a response body
    scalls,       \* HttpSandbox: number of calls made
    epc,          \* execute_function: position in one invocation
    fuel,         \* execute_function: fuel left in the store
    store,        \* execute_function: the store of the invocation
    eret,         \* execute_function: what the last invocation returned
    ecalls,       \* execute_function: number of invocations
    fop,          \* a function applied on its own: which one
    fin,          \* a function applied on its own: its arguments
    fout,         \* a function applied on its own: what it returned
    tokens,       \* RateLimiter.tokens
    last_refill,  \* RateLimiter.last_refill (clock ticks)
    now,          \* Instant::now() (clock ticks)
    checked,      \* RateLimiter: what the last check returned
    granted,      \* per tick: number of checks that returned Ok at that tick
    apc,          \* execute_function's guest calls: position
    params,       \* execute_function's guest calls: the `params` bytes
    params_ptr,   \* execute_function's guest calls: local `params_ptr`
    result_ptr,   \* execute_function's guest calls: local `result_ptr`
    result_data,  \* execute_function's guest calls: local `result_data`
    gmem,         \* execute_function's guest calls: the guest's memory
    gcalls,       \* execute_function's guest calls: the exports called so far
    aret          \* execute_function's guest calls: what it returned

cpVars   == <<rootDir, disk, modules, runtimeLock, loaderLock, modulesLock,
              pc, cmd, arg, ext, is_loaded, module, ret, issued>>
hostVars == <<hpc, hurl, requests, hret, hcalls, hlen>>
rateVars == <<tokens, last_refill, now, checked, granted>>
sbVars   == <<spc, surl, wire, sret, hops, slen, sread, scalls>>
execVars == <<epc, fuel, store, eret, ecalls>>
fnVars   == <<fop, fin, fout>>
abiVars  == <<apc, params, params_ptr, result_ptr, result_data, gmem, gcalls, aret>>
vars     == <<cpVars, hostVars, rateVars, sbVars, execVars, fnVars, abiVars>>

----------------------------------------------------------------------------
(* Bounds of the model *)

\* commands the shell invokes in one run
MaxCmds == 3
\* host_http_get calls the guest makes in one run
MaxHostCalls == 2
\* clock ticks the rate limiter is observed for
MaxTime == 6
\* clock ticks in one second
TicksPerSec == 2
\* calls made to the HTTP sandbox
MaxSandboxCalls == 3
\* clock ticks the HTTP sandbox is observed for
MaxSandboxTime == 2
\* invocations of execute_function followed step by step
MaxExecCalls == 3

----------------------------------------------------------------------------
(* Option values and strings as character sequences *)

None == <<>>
Some(x) == <<x>>
IsSome(o) == Len(o) = 1
Get(o) == o[1]

StartsWith(s, prefix) ==
    /\ Len(s) >= Len(prefix)
    /\ SubSeq(s, 1, Len(prefix)) = prefix

Contains(s, ch) == \E k \in 1..Len(s) : s[k] = ch

----------------------------------------------------------------------------
(* Errors: ExtensionError and its rendering at the command boundary *)

OkRes == [ok |-> TRUE, kind |-> "", msg |-> "", detail |-> <<>>, value |-> {}]
OkVal(v) == [OkRes EXCEPT !.value = v]
Err(kind, msg) == [ok |-> FALSE, kind |-> kind, msg |-> msg, detail |-> <<>>, value |-> {}]
ErrD(kind, msg, detail) == [Err(kind, msg) EXCEPT !.detail = detail]
\* an error a command builds itself with format!(...)
CmdErr(msg) == Err("Command", msg)

----------------------------------------------------------------------------
(* Sample file contents *)

Procs == {"p1", "p2"}
NoProc == "none"
Ids == {"a", "b"}

\* module.wasm contents, as bit strings
WasmGood  == <<0, 1>>
WasmGood2 == <<1, 0>>
WasmBroken == <<0, 0>>
WasmNoDealloc == <<1, 1>>
WasmFiles == {WasmBroken, WasmGood, WasmGood2, WasmNoDealloc}

HexDigits == <<"0", "1", "2", "3", "4", "5", "6", "7", "8", "9",
               "a", "b", "c", "d", "e", "f">>

RECURSIVE BitsValue(_)
BitsValue(bits) ==
    IF bits = <<>> THEN 0
    ELSE 2 * BitsValue(SubSeq(bits, 1, Len(bits) - 1)) + bits[Len(bits)]

\* Sha256::new / update / finalize, rendered by format!("{:x}"): a digest in
\* lowercase hex.  Two hex digits stand for the 64; distinct sample files
\* have distinct digests.
Sha256Hex(bytes) ==
    LET v == BitsValue(bytes)
    IN  <<HexDigits[11 + (v % 6)], HexDigits[1 + ((v \div 6) % 16)]>>

Sha256Prefix == <<"s", "h", "a", "2", "5", "6", ":">>

\* Module::new on the sample files: None when compilation fails, else the
\* module's exports (function exports, and whether `memory` is exported).
Compile(bytes) ==
    CASE bytes = WasmGood ->
            Some([funcs |-> {"alloc", "dealloc", "extension_search"}, memory |-> TRUE])
      [] bytes = WasmGood2 ->
            Some([funcs |-> {"alloc", "dealloc", "extension_search",
                             "extension_get_chapters", "extension_get_chapter_images",
                             "extension_get_languages"}, memory |-> TRUE])
      [] bytes = WasmNoDealloc ->
            Some([funcs |-> {"alloc", "extension_search"}, memory |-> TRUE])
      [] OTHER -> None

Manifest(name, wasm, type) ==
    [name |-> name,
     version |-> <<"1", ".", "0">>,
     extension_type |-> type,
     checksum |-> Sha256Prefix \o Sha256Hex(wasm),
     exports |-> [search |-> TRUE, get_chapters |-> FALSE,
                  get_chapter_images |-> FALSE, is_multi_language |-> FALSE]]

\* the (manifest, module) file pairs the shell hands to
\* install_extension_from_file: a module with its own manifest, the same
\* with a type the manifest rules reject, and a module with the manifest of
\* another
InstallInputs ==
    {[manifest |-> Manifest(i, w, "manga"), wasm |-> w] : i \in Ids, w \in WasmFiles}
        \cup {[manifest |-> Manifest(i, WasmGood, "invalid"), wasm |-> WasmGood] : i \in Ids}
        \cup {[manifest |-> Manifest(i, WasmGood, "manga"), wasm |-> WasmGood2] : i \in Ids}

Dir(manifest, wasm) == Some([manifest |-> manifest, wasm |-> wasm])

\* what the extensions directory may hold for `i` when the application starts
InitDirs(i) ==
    {None,
     Dir(Some(Manifest(i, WasmGood, "manga")), Some(WasmGood)),
     Dir(Some(Manifest(i, WasmGood, "manga")), Some(WasmGood2))}

----------------------------------------------------------------------------
(* manifest.rs *)

Validate(m) ==
    IF m.name = "" THEN Err("ValidationError", "name cannot be empty")
    ELSE IF ~Contains(m.version, ".")
        THEN Err("ValidationError", "version must be in semver format")
    ELSE IF m.extension_type \notin {"manga", "anime", "comic"}
        THEN Err("ValidationError", "invalid type")
    ELSE IF ~StartsWith(m.checksum, Sha256Prefix)
        THEN Err("ValidationError", "checksum must start with 'sha256:'")
    ELSE IF ~m.exports.search /\ ~m.exports.get_chapters /\ ~m.exports.get_chapter_images
        THEN Err("ValidationError", "at least one function must be exported")
    ELSE OkRes

\* a verification that looks at the prefix and the file, not at the digest
VerifyChecksumPrefixOnly(m, wasm) ==
    IF ~StartsWith(m.checksum, Sha256Prefix)
        THEN Err("ValidationError", "invalid checksum format")
    ELSE IF ~IsSome(wasm) THEN Err("LoadError", "io")
    ELSE OkRes

\* `wasm` is the Option of the file at wasm_path
VerifyChecksum(m, wasm) ==
    IF ~StartsWith(m.checksum, Sha256Prefix)
        THEN Err("ValidationError", "invalid checksum format")
    ELSE IF ~IsSome(wasm) THEN Err("LoadError", "io")
    ELSE LET expected == SubSeq(m.checksum, Len(Sha256Prefix) + 1, Len(m.checksum))
             actual == Sha256Hex(Get(wasm))
         IN  IF actual # expected
                 THEN ErrD("ValidationError", "checksum mismatch", <<expected, actual>>)
                 ELSE OkRes

----------------------------------------------------------------------------
(* loader.rs *)

\* a load_extension_info that stops at the first file it misses and never
\* looks inside the manifest or the module
LoadExtensionInfoUnchecked(d, files) ==
    IF ~IsSome(files.manifest) THEN Err("LoadError", "manifest.json not found")
    ELSE IF ~IsSome(files.wasm) THEN Err("LoadError", "module.wasm not found")
    ELSE OkVal({[id |-> Get(files.manifest).name, manifest |-> Get(files.manifest),
                 wasm_path |-> d, installed |-> TRUE]})

\* Result of load_extension_info on the directory `d` holding `files`:
\* the error, or ok with the descriptor in `value`.
LoadExtensionInfo(d, files) ==
    IF ~IsSome(files.manifest) THEN Err("LoadError", "manifest.json not found")
    ELSE LET manifest == Get(files.manifest)
         IN  IF ~Validate(manifest).ok THEN Validate(manifest)
             ELSE IF ~IsSome(files.wasm) THEN Err("LoadError", "module.wasm not found")
             ELSE IF ~VerifyChecksum(manifest, files.wasm).ok
                 THEN VerifyChecksum(manifest, files.wasm)
             ELSE OkVal({[id |-> manifest.name, manifest |-> manifest,
                          wasm_path |-> d, installed |-> TRUE]})

\* The descriptors discover_extensions returns: per-directory errors are
\* printed and skipped.
DiscoverExtensions(root, dsk) ==
    IF ~root THEN {}
    ELSE UNION {LoadExtensionInfo(d, Get(dsk[d])).value :
                   d \in {x \in Ids : IsSome(dsk[x])
                                       /\ LoadExtensionInfo(x, Get(dsk[x])).ok}}

----------------------------------------------------------------------------
(* runtime.rs: the registry *)

\* a validation that accepts every module that compiles
ValidateModuleLax(exports) == OkRes

\* validate_module, on the exports of the compiled module
ValidateModule(exports) ==
    IF "alloc" \notin exports.funcs
        THEN Err("ValidationError", "Module must export 'alloc' function")
    ELSE IF "dealloc" \notin exports.funcs
        THEN Err("ValidationError", "Module must export 'dealloc' function")
    ELSE IF ~(\/ "extension_search" \in exports.funcs
              \/ "extension_get_chapters" \in exports.funcs
              \/ "extension_get_chapter_images" \in exports.funcs)
        THEN Err("ValidationError", "Module must export at least one extension function")
    ELSE OkRes

\* WasmRuntime::load_extension(name, wasm_path) on registry `mods`, `wasm`
\* being the Option of the file at wasm_path: the result and the registry
\* after it.
RuntimeLoadExtension(mods, name, wasm) ==
    IF ~IsSome(wasm)
        THEN [res |-> Err("LoadError", "WASM file not found"), mods |-> mods]
    ELSE IF ~IsSome(Compile(Get(wasm)))
        THEN [res |-> Err("LoadError", "Failed to compile WASM module"), mods |-> mods]
    ELSE IF ~ValidateModule(Get(Compile(Get(wasm)))).ok
        THEN [res |-> ValidateModule(Get(Compile(Get(wasm)))), mods |-> mods]
    ELSE [res |-> OkRes, mods |-> [mods EXCEPT ![name] = Some(Get(wasm))]]

\* modules.contains_key(name), for any name
IsLoaded(mods, name) == name \in DOMAIN mods /\ IsSome(mods[name])

\* an unload that clears the whole registry
RuntimeUnloadAll(mods, name) == [i \in Ids |-> None]

\* modules.remove(name); the result is Ok(()) whether or not name was there
RuntimeUnloadExtension(mods, name) == [mods EXCEPT ![name] = None]

ListLoaded(mods) == {i \in Ids : IsSome(mods[i])}

\* a lookup that falls back to a module instead of failing
ResolveModuleOrDefault(mods, name) ==
    [res |-> OkRes,
     module |-> IF IsSome(mods[name]) THEN mods[name] ELSE Some(WasmGood)]

\* execute_function's lookup: the clone of the module, or the error
ResolveModule(mods, name) ==
    IF IsSome(mods[name])
        THEN [res |-> OkRes, module |-> mods[name]]
        ELSE [res |-> Err("RuntimeError", "not loaded"), module |-> None]

----------------------------------------------------------------------------
(* sandbox.rs: the egress policy *)

IsDigit(c) == \E k \in 1..10 : HexDigits[k] = c
DigitValue(c) == (CHOOSE k \in 1..10 : HexDigits[k] = c) - 1

RECURSIVE DecimalValue(_)
DecimalValue(s) ==
    IF s = <<>> THEN 0
    ELSE 10 * DecimalValue(SubSeq(s, 1, Len(s) - 1)) + DigitValue(s[Len(s)])

RECURSIVE Split(_, _)
Split(s, sep) ==
    IF ~Contains(s, sep) THEN <<s>>
    ELSE LET k == CHOOSE j \in 1..Len(s) : s[j] = sep /\ \A i \in 1..(j - 1) : s[i] # sep
         IN  <<SubSeq(s, 1, k - 1)>> \o Split(SubSeq(s, k + 1, Len(s)), sep)

\* one decimal octet as Ipv4Addr::from_str accepts it
IsOctetText(part) ==
    /\ Len(part) \in 1..3
    /\ \A k \in 1..Len(part) : IsDigit(part[k])
    /\ Len(part) > 1 => part[1] # "0"
    /\ DecimalValue(part) <= 255

\* IPv6 addresses in text form, with their eight segments
Ipv6Texts ==
    {[text |-> <<":", ":", "1">>, segments |-> <<0, 0, 0, 0, 0, 0, 0, 1>>],
     [text |-> <<":", ":">>, segments |-> <<0, 0, 0, 0, 0, 0, 0, 0>>],
     [text |-> <<"f", "e", "8", "0", ":", ":", "1">>, segments |-> <<65152, 0, 0, 0, 0, 0, 0, 1>>],
     [text |-> <<"f", "c", "0", "0", ":", ":", "1">>, segments |-> <<64512, 0, 0, 0, 0, 0, 0, 1>>],
     [text |-> <<"2", "0", "0", "1", ":", ":", "1">>, segments |-> <<8193, 0, 0, 0, 0, 0, 0, 1>>]}

\* host.parse::<IpAddr>(): None, or the address.  Text in brackets is not an
\* address.
ParseIpAddr(host) ==
    LET parts == Split(host, ".")
    IN  IF Len(parts) = 4 /\ \A k \in 1..4 : IsOctetText(parts[k])
           THEN Some([v4 |-> TRUE, n |-> [k \in 1..4 |-> DecimalValue(parts[k])]])
        ELSE IF \E a \in Ipv6Texts : a.text = host
           THEN Some([v4 |-> FALSE, n |-> (CHOOSE a \in Ipv6Texts : a.text = host).segments])
        ELSE None

IsPrivateIp(ip) ==
    IF ip.v4
       THEN LET o == ip.n
            IN  \/ o[1] = 10                                        \* is_private
                \/ o[1] = 172 /\ o[2] \in 16..31
                \/ o[1] = 192 /\ o[2] = 168
                \/ o[1] = 127                                       \* is_loopback
                \/ o[1] = 169 /\ o[2] = 254                         \* is_link_local
                \/ \A k \in 1..4 : o[k] = 255                       \* is_broadcast
                \/ o[1] = 192 /\ o[2] = 0 /\ o[3] = 2               \* is_documentation
                \/ o[1] = 198 /\ o[2] = 51 /\ o[3] = 100
                \/ o[1] = 203 /\ o[2] = 0 /\ o[3] = 113
                \/ \A k \in 1..4 : o[k] = 0                         \* is_unspecified
                \/ o[1] = 100 /\ (o[2] \div 64) * 64 = 64           \* carrier-grade NAT
       ELSE LET g == ip.n
            IN  \/ g = <<0, 0, 0, 0, 0, 0, 0, 1>>                   \* is_loopback
                \/ g = <<0, 0, 0, 0, 0, 0, 0, 0>>                   \* is_unspecified
                \/ (g[1] \div 512) * 512 = 64512                    \* & 0xfe00 == 0xfc00
                \/ (g[1] \div 64) * 64 = 65152                      \* & 0xffc0 == 0xfe80

BlockedSchemes == {"file", "ftp", "data", "javascript"}

BlockedPorts == {22, 23, 25, 110, 143, 445, 3306, 5432, 6379, 27017}

Chars127 == <<"1", "2", "7", ".">>
Chars0 == <<"0", ".">>

\* validate_url on a parsed Url: scheme(), host_str() and port()
ValidateUrl(url) ==
    IF url.scheme \in BlockedSchemes THEN Err("HttpError", "Blocked scheme")
    ELSE IF url.scheme # "http" /\ url.scheme # "https"
        THEN Err("HttpError", "Only HTTP and HTTPS are allowed")
    ELSE IF ~IsSome(url.host) THEN Err("HttpError", "URL must have a host")
    ELSE LET host == Get(url.host)
         IN  IF \/ host = <<"l", "o", "c", "a", "l", "h", "o", "s", "t">>
                \/ host = <<"1", "2", "7", ".", "0", ".", "0", ".", "1">>
                \/ host = <<":", ":", "1">>
                \/ StartsWith(host, Chars127)
                \/ StartsWith(host, Chars0)
                THEN Err("HttpError", "Access to localhost is blocked")
             ELSE IF IsSome(ParseIpAddr(host)) /\ IsPrivateIp(Get(ParseIpAddr(host)))
                THEN Err("HttpError", "Access to private IP addresses is blocked")
             ELSE IF \/ host = <<"0", ".", "0", ".", "0", ".", "0">>
                     \/ host = <<":", ":">>
                     \/ host = <<>>
                THEN Err("HttpError", "Invalid host address")
             ELSE IF IsSome(url.port) /\ Get(url.port) \in BlockedPorts
                THEN Err("HttpError", "Access to port is blocked")
             ELSE OkRes

Url(scheme, host, port) == Some([scheme |-> scheme, host |-> host, port |-> port])

HostExample == <<"e", "x", "a", "m", "p", "l", "e", ".", "c", "o", "m">>

\* Url::parse on the sample URLs: None when the text is no URL, else the
\* scheme, host_str() (an IPv6 host is serialised in brackets) and port()
\* (None for the scheme's default port).
UrlParse(text) ==
    CASE text = "https://example.com" -> Url("https", Some(HostExample), None)
      [] text = "http://example.com:8080" -> Url("http", Some(HostExample), Some(8080))
      [] text = "http://example.com:22" -> Url("http", Some(HostExample), Some(22))
      [] text = "http://127.0.0.1:8080/x" ->
            Url("http", Some(<<"1", "2", "7", ".", "0", ".", "0", ".", "1">>), Some(8080))
      [] text = "http://localhost" ->
            Url("http", Some(<<"l", "o", "c", "a", "l", "h", "o", "s", "t">>), None)
      [] text = "http://192.168.1.1" ->
            Url("http", Some(<<"1", "9", "2", ".", "1", "6", "8", ".", "1", ".", "1">>), None)
      [] text = "http://169.254.169.254/latest" ->
            Url("http", Some(<<"1", "6", "9", ".", "2", "5", "4", ".",
                               "1", "6", "9", ".", "2", "5", "4">>), None)
      [] text = "http://8.8.8.8" ->
            Url("http", Some(<<"8", ".", "8", ".", "8", ".", "8">>), None)
      [] text = "http://[::1]" -> Url("http", Some(<<"[", ":", ":", "1", "]">>), None)
      [] text = "http://[::]" -> Url("http", Some(<<"[", ":", ":", "]">>), None)
      [] text = "https://[fe80::1]:8080" ->
            Url("https", Some(<<"[", "f", "e", "8", "0", ":", ":", "1", "]">>), Some(8080))
      [] text = "http://[fc00::1]" ->
            Url("http", Some(<<"[", "f", "c", "0", "0", ":", ":", "1", "]">>), None)
      [] text = "http://[2001::1]" ->
            Url("http", Some(<<"[", "2", "0", "0", "1", ":", ":", "1", "]">>), None)
      [] text = "file:///etc/passwd" -> Url("file", None, None)
      [] text = "ftp://example.com" -> Url("ftp", Some(HostExample), None)
      [] OTHER -> None

SampleUrls ==
    {"https://example.com", "http://example.com:8080", "http://example.com:22",
     "http://127.0.0.1:8080/x", "http://localhost", "http://192.168.1.1",
     "http://169.254.169.254/latest", "http://8.8.8.8", "http://[::1]",
     "file:///etc/passwd", "ftp://example.com", "not a url"}

IsUrlAllowed(text) ==
    IF IsSome(UrlParse(text)) THEN ValidateUrl(Get(UrlParse(text))).ok ELSE FALSE

----------------------------------------------------------------------------
(* sandbox.rs: the rate limiter *)

\* max_requests_per_second of the limiter under test
MaxRequestsPerSecond == 2

\* max_response_size, in bytes
MaxResponseSize == 2

\* max_redirects of the sandbox's client
MaxRedirects == 2

Min(a, b) == IF a < b THEN a ELSE b

\* a refill that adds the tokens of the elapsed seconds without a ceiling
RefillUncapped(tok, last, t) ==
    LET elapsed == t - last
    IN  IF elapsed >= TicksPerSec
           THEN [tokens |-> tok + MaxRequestsPerSecond * (elapsed \div TicksPerSec),
                 last_refill |-> t]
           ELSE [tokens |-> tok, last_refill |-> last]

\* a refill that does not wait for a full second to pass
RefillAlways(tok, last, t) ==
    [tokens |-> MaxRequestsPerSecond, last_refill |-> t]

\* RateLimiter::refill at time t: the tokens and last_refill after it
Refill(tok, last, t) ==
    LET elapsed == t - last
    IN  IF elapsed >= TicksPerSec
           THEN [tokens |-> Min(MaxRequestsPerSecond,
                                tok + MaxRequestsPerSecond * (elapsed \div TicksPerSec)),
                 last_refill |-> t]
           ELSE [tokens |-> tok, last_refill |-> last]

\* a check that grants without taking a token
RateCheckFree ==
    LET r == Refill(tokens, last_refill, now)
    IN  /\ last_refill' = r.last_refill
        /\ tokens' = r.tokens
        /\ IF r.tokens > 0
              THEN /\ checked' = OkRes
                   /\ granted' = [granted EXCEPT ![now] = @ + 1]
              ELSE /\ checked' = Err("HttpError", "Rate limit exceeded")
                   /\ UNCHANGED granted

\* RateLimiter::check, on the limiter's fields
RateCheck ==
    LET r == Refill(tokens, last_refill, now)
    IN  /\ last_refill' = r.last_refill
        /\ IF r.tokens > 0
              THEN /\ tokens' = r.tokens - 1
                   /\ checked' = OkRes
                   /\ granted' = [granted EXCEPT ![now] = @ + 1]
              ELSE /\ tokens' = r.tokens
                   /\ checked' = Err("HttpError", "Rate limit exceeded")
                   /\ UNCHANGED granted

\* a caller checks the limiter
Check ==
    /\ RateCheck
    /\ UNCHANGED <<now, cpVars, hostVars, sbVars, execVars, fnVars, abiVars>>

\* time passes
Tick ==
    /\ now < MaxTime
    /\ now' = now + 1
    /\ UNCHANGED <<tokens, last_refill, checked, granted, cpVars, hostVars, sbVars, execVars, fnVars, abiVars>>

----------------------------------------------------------------------------
(* commands/*.rs: the command tasks.  A task stands at the await where it   *)
(* is suspended; a step runs from one lock acquisition to the next.  A     *)
(* command that was invoked but has not acquired its first lock has done   *)
(* nothing yet, so its invocation and its first step are one step.         *)

Args(id, fn) == [id |-> id, fn |-> fn]

ExtensionFunctions == {"extension_search", "extension_get_chapters",
                       "extension_get_chapter_images", "extension_get_languages"}

RECURSIVE SumOver(_, _)
SumOver(f, S) ==
    IF S = {} THEN 0
    ELSE LET x == CHOOSE y \in S : TRUE IN f[x] + SumOver(f, S \ {x})

Invoked == SumOver(issued, Procs)

\* the task starts command c
Begin(p, c, a) ==
    /\ pc[p] = "idle"
    /\ Invoked < MaxCmds
    /\ cmd' = [cmd EXCEPT ![p] = c]
    /\ arg' = [arg EXCEPT ![p] = a]
    /\ issued' = [issued EXCEPT ![p] = @ + 1]
    /\ UNCHANGED <<hostVars, rateVars, sbVars, execVars, fnVars, abiVars>>

\* the task resumes at `label`
Resume(p, label) ==
    /\ pc[p] = label
    /\ UNCHANGED <<cmd, arg, issued>>
    /\ UNCHANGED <<hostVars, rateVars, sbVars, execVars, fnVars, abiVars>>

\* the command returns r; its locals are dropped
Return(p, r) ==
    /\ pc' = [pc EXCEPT ![p] = "idle"]
    /\ ret' = [ret EXCEPT ![p] = r]
    /\ ext' = [ext EXCEPT ![p] = None]
    /\ is_loaded' = [is_loaded EXCEPT ![p] = FALSE]
    /\ module' = [module EXCEPT ![p] = None]

\* the command goes on to `label`
Goto(p, label) ==
    /\ pc' = [pc EXCEPT ![p] = label]
    /\ ret' = [ret EXCEPT ![p] = OkRes]

RuntimeFree == runtimeLock = NoProc /\ modulesLock = NoProc

ExtensionInfo(id, installed, loaded) ==
    [id |-> id, installed |-> installed, loaded |-> loaded]

\* load_extension, lines 11-17: the already-loaded check
LoadCheckStep(p, id) ==
    /\ RuntimeFree
    /\ IF IsLoaded(modules, id)
          THEN Return(p, CmdErr("already loaded"))
          ELSE Goto(p, "load_discover") /\ UNCHANGED <<ext, is_loaded, module>>
    /\ UNCHANGED <<rootDir, disk, modules, runtimeLock, loaderLock, modulesLock>>

\* unload_extension; `next` is where the caller goes on when it returns Ok
UnloadStep(p, id, next) ==
    /\ RuntimeFree
    /\ IF ~IsLoaded(modules, id)
          THEN Return(p, CmdErr("is not loaded")) /\ UNCHANGED modules
          ELSE /\ modules' = RuntimeUnloadExtension(modules, id)
               /\ IF next = "idle"
                     THEN Return(p, OkRes)
                     ELSE Goto(p, next) /\ UNCHANGED <<ext, is_loaded, module>>
    /\ UNCHANGED <<rootDir, disk, runtimeLock, loaderLock, modulesLock>>

LoadCheck(p, id) == Begin(p, "load", Args(id, "")) /\ LoadCheckStep(p, id)

\* load_extension, lines 19-28: discovery under the loader lock
LoadDiscover(p) ==
    /\ Resume(p, "load_discover")
    /\ loaderLock = NoProc
    /\ rootDir' = TRUE
    /\ LET found == {e \in DiscoverExtensions(rootDir, disk) : e.id = arg[p].id}
       IN  IF found = {}
              THEN Return(p, CmdErr("not found"))
              ELSE /\ \E e \in found : ext' = [ext EXCEPT ![p] = Some(e)]
                   /\ Goto(p, "load_insert")
                   /\ UNCHANGED <<is_loaded, module>>
    /\ UNCHANGED <<disk, modules, runtimeLock, loaderLock, modulesLock>>

FileAt(dsk, d) == IF IsSome(dsk[d]) THEN Get(dsk[d]).wasm ELSE None

\* load_extension, lines 34-57: runtime.load_extension under the runtime lock
LoadInsert(p) ==
    /\ Resume(p, "load_insert")
    /\ RuntimeFree
    /\ LET e == Get(ext[p])
           r == RuntimeLoadExtension(modules, e.id, FileAt(disk, e.wasm_path))
       IN  /\ modules' = r.mods
           /\ Return(p, IF r.res.ok
                           THEN OkVal({ExtensionInfo(e.id, e.installed, TRUE)})
                           ELSE r.res)
    /\ UNCHANGED <<rootDir, disk, runtimeLock, loaderLock, modulesLock>>

Unload(p, id) == Begin(p, "unload", Args(id, "")) /\ UnloadStep(p, id, "idle")

\* reload_extension, lines 85-88
ReloadCheck(p, id) ==
    /\ Begin(p, "reload", Args(id, ""))
    /\ RuntimeFree
    /\ is_loaded' = [is_loaded EXCEPT ![p] = IsLoaded(modules, id)]
    /\ Goto(p, IF IsLoaded(modules, id) THEN "reload_unload" ELSE "reload_load")
    /\ UNCHANGED <<rootDir, disk, modules, runtimeLock, loaderLock, modulesLock,
                   ext, module>>

\* reload_extension, lines 90-92
ReloadUnload(p) ==
    /\ Resume(p, "reload_unload")
    /\ UnloadStep(p, arg[p].id, "reload_load")

\* reload_extension, line 95
ReloadLoad(p) ==
    /\ Resume(p, "reload_load")
    /\ LoadCheckStep(p, arg[p].id)

\* uninstall_extension, lines 140-146
UninstallCheck(p, id) ==
    /\ Begin(p, "uninstall", Args(id, ""))
    /\ RuntimeFree
    /\ Goto(p, IF IsLoaded(modules, id) THEN "uninstall_unload" ELSE "uninstall_remove")
    /\ UNCHANGED <<rootDir, disk, modules, runtimeLock, loaderLock, modulesLock,
                   ext, is_loaded, module>>

UninstallUnload(p) ==
    /\ Resume(p, "uninstall_unload")
    /\ UnloadStep(p, arg[p].id, "uninstall_remove")

\* extension ids that are not the name of a subdirectory: the empty string,
\* and a relative path through a to b
PathIds == {"", "a/../b"}

\* extensions_directory().join(id), exists() and fs::remove_dir_all on it:
\* the directory tree afterwards.  join("") is the extensions directory
\* itself; "a/../b" resolves to b when a exists.
RemoveDirAll(root, dsk, id) ==
    IF ~root THEN [rootDir |-> root, disk |-> dsk]
    ELSE IF id = "" THEN [rootDir |-> FALSE, disk |-> [i \in Ids |-> None]]
    ELSE IF id = "a/../b"
        THEN [rootDir |-> root,
              disk |-> IF IsSome(dsk["a"]) THEN [dsk EXCEPT !["b"] = None] ELSE dsk]
    ELSE [rootDir |-> root, disk |-> [dsk EXCEPT ![id] = None]]

\* uninstall_extension, lines 148-157
UninstallRemove(p) ==
    /\ Resume(p, "uninstall_remove")
    /\ loaderLock = NoProc
    /\ rootDir' = RemoveDirAll(rootDir, disk, arg[p].id).rootDir
    /\ disk' = RemoveDirAll(rootDir, disk, arg[p].id).disk
    /\ Return(p, OkRes)
    /\ UNCHANGED <<modules, runtimeLock, loaderLock, modulesLock>>

\* install_extension_from_file, given the contents of the two source files
InstallFromFile(p, manifest, wasm) ==
    /\ Begin(p, "install", Args(manifest.name, ""))
    /\ loaderLock = NoProc
    /\ LET v == VerifyChecksum(manifest, Some(wasm))
       IN  IF ~v.ok
              THEN /\ Return(p, v)
                   /\ UNCHANGED <<rootDir, disk>>
              ELSE /\ rootDir' = TRUE
                   /\ disk' = [disk EXCEPT ![manifest.name] = Dir(Some(manifest), Some(wasm))]
                   /\ Return(p, OkVal({ExtensionInfo(manifest.name, TRUE, FALSE)}))
    /\ UNCHANGED <<modules, runtimeLock, loaderLock, modulesLock>>

\* list_loaded_extensions: one entry, holding the id, for each loaded module
ListLoadedExtensions(p) ==
    /\ Begin(p, "list_loaded", Args("", ""))
    /\ RuntimeFree
    /\ Return(p, OkVal({[id |-> i] : i \in ListLoaded(modules)}))
    /\ UNCHANGED <<rootDir, disk, modules, runtimeLock, loaderLock, modulesLock>>

\* a list_installed that takes the runtime lock first and the loader lock
\* while holding it
ListInstalledRuntimeFirst(p) ==
    /\ Begin(p, "list_installed", Args("", ""))
    /\ loaderLock = NoProc
    /\ RuntimeFree
    /\ runtimeLock' = p
    /\ loaderLock' = p
    /\ Goto(p, "list_installed_runtime")
    /\ UNCHANGED <<rootDir, disk, modules, modulesLock, ext, is_loaded, module>>

\* list_installed_extensions, line 10: the loader lock is taken first
ListInstalledLoader(p) ==
    /\ Begin(p, "list_installed", Args("", ""))
    /\ loaderLock = NoProc
    /\ loaderLock' = p
    /\ Goto(p, "list_installed_runtime")
    /\ UNCHANGED <<rootDir, disk, modules, runtimeLock, modulesLock, ext, is_loaded, module>>

\* list_installed_extensions, lines 11-34
ListInstalledRuntime(p) ==
    /\ Resume(p, "list_installed_runtime")
    /\ RuntimeFree
    /\ rootDir' = TRUE
    /\ Return(p, OkVal({ExtensionInfo(e.id, e.installed, IsLoaded(modules, e.id)) :
                           e \in DiscoverExtensions(rootDir, disk)}))
    /\ loaderLock' = NoProc
    /\ UNCHANGED <<disk, modules, runtimeLock, modulesLock>>

\* extension_search and its three siblings, lines 13-18
ExecCheck(p, id, fn) ==
    /\ Begin(p, "execute", Args(id, fn))
    /\ RuntimeFree
    /\ IF ~IsLoaded(modules, id)
          THEN Return(p, CmdErr("is not loaded"))
          ELSE Goto(p, "exec_lock") /\ UNCHANGED <<ext, is_loaded, module>>
    /\ UNCHANGED <<rootDir, disk, modules, runtimeLock, loaderLock, modulesLock>>

\* extension_search line 25 and execute_function lines 130-140: the runtime
\* lock is taken, then the registry lock, and the module is cloned
ExecResolve(p) ==
    /\ Resume(p, "exec_lock")
    /\ RuntimeFree
    /\ LET r == ResolveModule(modules, arg[p].id)
       IN  IF ~r.res.ok
              THEN Return(p, r.res) /\ UNCHANGED <<runtimeLock, modulesLock>>
              ELSE /\ runtimeLock' = p
                   /\ modulesLock' = p
                   /\ module' = [module EXCEPT ![p] = r.module]
                   /\ Goto(p, "exec_cloned")
                   /\ UNCHANGED <<ext, is_loaded>>
    /\ UNCHANGED <<rootDir, disk, modules, loaderLock>>

\* execute_function lines 141-161: the registry guard is dropped, the store,
\* the linker and the instance are made; the guest's code runs from here on
ExecStart(p) ==
    /\ Resume(p, "exec_cloned")
    /\ modulesLock' = NoProc
    /\ IF Get(Compile(Get(module[p]))).memory
          THEN Goto(p, "guest") /\ UNCHANGED <<ext, is_loaded, module, runtimeLock>>
          ELSE Return(p, Err("RuntimeError", "Module must export 'memory'"))
               /\ runtimeLock' = NoProc
    /\ UNCHANGED <<rootDir, disk, modules, loaderLock>>

GuestOutcomes == {"returned", "trapped", "out of fuel"}

\* an invocation that drops the module from the registry when the guest fails
GuestReturnEvict(p, outcome) ==
    /\ Resume(p, "guest")
    /\ runtimeLock' = NoProc
    /\ Return(p, IF outcome = "returned" THEN OkRes
                 ELSE Err("RuntimeError", "Function execution failed"))
    /\ modules' = IF outcome = "returned" THEN modules
                  ELSE RuntimeUnloadExtension(modules, arg[p].id)
    /\ UNCHANGED <<rootDir, disk, loaderLock, modulesLock>>

\* execute_function lines 163-255 and extension_search line 30: the guest
\* calls end and the runtime guard is dropped
GuestReturn(p, outcome) ==
    /\ Resume(p, "guest")
    /\ runtimeLock' = NoProc
    /\ Return(p, IF arg[p].fn \notin Get(Compile(Get(module[p]))).funcs
                    THEN Err("RuntimeError", "Function not found or has wrong signature")
                 ELSE IF outcome = "returned" THEN OkRes
                 ELSE Err("RuntimeError", "Function execution failed"))
    /\ UNCHANGED <<rootDir, disk, modules, loaderLock, modulesLock>>

Next ==
    \E p \in Procs :
        \/ \E id \in Ids : LoadCheck(p, id)
        \/ LoadDiscover(p)
        \/ LoadInsert(p)
        \/ \E id \in Ids : Unload(p, id)
        \/ \E id \in Ids : ReloadCheck(p, id)
        \/ ReloadUnload(p)
        \/ ReloadLoad(p)
        \/ \E id \in Ids : UninstallCheck(p, id)
        \/ UninstallUnload(p)
        \/ UninstallRemove(p)
        \/ \E src \in InstallInputs : InstallFromFile(p, src.manifest, src.wasm)
        \/ ListLoadedExtensions(p)
        \/ ListInstalledLoader(p)
        \/ ListInstalledRuntime(p)
        \/ \E id \in Ids, fn \in ExtensionFunctions : ExecCheck(p, id, fn)
        \/ ExecResolve(p)
        \/ ExecStart(p)
        \/ \E o \in GuestOutcomes : GuestReturn(p, o)

GuestArg(kind, text) == [kind |-> kind, text |-> text]

HostIdle ==
    /\ hpc = "off" /\ hurl = GuestArg("none", "") /\ requests = {}
    /\ hret = 0 /\ hcalls = 0 /\ hlen = 0

\* no HttpSandbox call made
SandboxIdle ==
    /\ spc = "off" /\ surl = "" /\ wire = <<>> /\ sret = OkRes
    /\ hops = 0 /\ slen = None /\ sread = FALSE /\ scalls = 0

\* no store: `mem` is the guest memory and globals of the live store,
\* `freed` what the last dropped store held
NoStore == [live |-> FALSE, mem |-> <<>>, freed |-> <<>>]

\* no function applied on its own
FnIdle == fop = "" /\ fin = <<>> /\ fout = <<>>

\* no invocation whose guest calls are followed
AbiIdle ==
    /\ apc = "off" /\ params = <<>> /\ params_ptr = 0 /\ result_ptr = 0
    /\ result_data = <<>> /\ gmem = <<>> /\ gcalls = <<>> /\ aret = OkRes

\* no invocation followed step by step
ExecIdle ==
    /\ epc = "off" /\ fuel = 0 /\ store = NoStore
    /\ eret = OkRes /\ ecalls = 0

RateIdle ==
    /\ tokens = 0 /\ last_refill = 0 /\ now = 0 /\ checked = OkRes /\ granted = <<>>

\* the control plane at rest: ExtensionState::new and no command in flight
CpIdle ==
    /\ modules = [i \in Ids |-> None]
    /\ runtimeLock = NoProc
    /\ loaderLock = NoProc
    /\ modulesLock = NoProc
    /\ pc = [p \in Procs |-> "idle"]
    /\ cmd = [p \in Procs |-> ""]
    /\ arg = [p \in Procs |-> Args("", "")]
    /\ ext = [p \in Procs |-> None]
    /\ is_loaded = [p \in Procs |-> FALSE]
    /\ module = [p \in Procs |-> None]
    /\ ret = [p \in Procs |-> OkRes]
    /\ issued = [p \in Procs |-> 0]

Init ==
    /\ rootDir \in BOOLEAN
    /\ disk \in [Ids -> UNION {InitDirs(i) : i \in Ids}]
    /\ \A i \in Ids : disk[i] \in InitDirs(i)
    /\ ~rootDir => \A i \in Ids : disk[i] = None
    /\ CpIdle
    /\ HostIdle
    /\ RateIdle
    /\ SandboxIdle
    /\ ExecIdle
    /\ FnIdle
    /\ AbiIdle

Spec == Init /\ [][Next]_vars

----------------------------------------------------------------------------
(* runtime.rs: host_http_get, as the guest of one invocation calls it.  The
   memory export is present: execute_function returns before any guest code
   when it is missing. *)

\* what the guest can pass as (ptr, len): text in its memory, a range
\* outside its memory, bytes that are not UTF-8, or a negative len
GuestArgs ==
    {GuestArg("text", u) : u \in SampleUrls}
        \cup {GuestArg("unreadable", ""), GuestArg("invalid_utf8", ""),
              GuestArg("negative_len", "")}

\* vec![0u8; len as usize]: a negative i32 becomes a usize above isize::MAX
\* and the allocation panics with "capacity overflow"
VecPanics(a) == a.kind = "negative_len"

LogLevels == {0, 4, 7}

\* the guest calls host_log(level, msg_ptr, msg_len)
HostLog(level, a) ==
    /\ hpc = "guest"
    /\ hcalls < MaxHostCalls
    /\ hcalls' = hcalls + 1
    /\ hpc' = IF VecPanics(a) THEN "panic" ELSE "guest"
    /\ UNCHANGED <<hurl, requests, hret, hlen, cpVars, rateVars, sbVars, execVars, fnVars, abiVars>>

\* http_client.get(&url).send() opens a connection only for a URL that
\* parses, has a host and is http or https; otherwise it returns Err at once
Dispatchable(text) ==
    /\ IsSome(UrlParse(text))
    /\ IsSome(Get(UrlParse(text)).host)
    /\ Get(UrlParse(text)).scheme \in {"http", "https"}

ResponseOutcomes == {"ok", "error_status", "transport_error"}

GuestPtrs == {0, 1024}

\* body lengths a server can answer with, up to one byte over the ceiling
BodyLengths == 0..(MaxResponseSize + 1)

\* the guest calls host_http_get: read the URL, spawn the request thread
HostHttpGet(a) ==
    /\ hpc = "guest"
    /\ hcalls < MaxHostCalls
    /\ hcalls' = hcalls + 1
    /\ hurl' = a
    /\ IF VecPanics(a)
          THEN /\ hpc' = "panic"
               /\ UNCHANGED <<requests, hret, hlen>>
       ELSE IF a.kind = "text" /\ Dispatchable(a.text)
          THEN /\ requests' = requests \cup {a.text}
               /\ hpc' = "recv"
               /\ UNCHANGED <<hret, hlen>>
          ELSE /\ hret' = 0
               /\ hlen' = 0
               /\ UNCHANGED <<requests, hpc>>
    /\ UNCHANGED <<cpVars, rateVars, sbVars, execVars, fnVars, abiVars>>

\* rx.recv() returns a body of `len` bytes or an error: copy the length and
\* the body into guest memory and return the pointer, or 0
HostHttpGetRecv(outcome, len, allocOk, ptr, writeOk) ==
    /\ hpc = "recv"
    /\ hpc' = "guest"
    /\ hret' = IF outcome = "ok" /\ allocOk /\ writeOk THEN ptr ELSE 0
    /\ hlen' = IF outcome = "ok" /\ allocOk /\ writeOk THEN len ELSE 0
    /\ UNCHANGED <<hurl, requests, hcalls, cpVars, rateVars, sbVars, execVars, fnVars, abiVars>>

NextHost ==
    \/ \E level \in LogLevels, a \in GuestArgs : HostLog(level, a)
    \/ \E a \in GuestArgs : HostHttpGet(a)
    \/ \E outcome \in ResponseOutcomes, len \in BodyLengths, allocOk \in BOOLEAN,
          ptr \in GuestPtrs, writeOk \in BOOLEAN :
            HostHttpGetRecv(outcome, len, allocOk, ptr, writeOk)

InitHost ==
    /\ rootDir = TRUE
    /\ disk = [i \in Ids |-> None]
    /\ CpIdle
    /\ hpc = "guest" /\ hurl = GuestArg("none", "") /\ requests = {}
    /\ hret = 0 /\ hcalls = 0 /\ hlen = 0
    /\ RateIdle
    /\ SandboxIdle
    /\ ExecIdle
    /\ FnIdle
    /\ AbiIdle

SpecHost == InitHost /\ [][NextHost]_vars

----------------------------------------------------------------------------
(* runtime.rs: execute_function on a loaded module, one invocation after
   another (the commands hold the runtime lock over the call), followed
   through the guest's run.  One unit of fuel is one instruction. *)

\* store.set_fuel(10_000_000), scaled down
FuelBudget == 4

\* the guest's memory and globals right after instantiation, and after the
\* guest has written to them
InitialMemory == <<0>>
WrittenMemory == <<1>>
MemValues == {InitialMemory, WrittenMemory}

\* a store that starts from what the last store left behind
ReuseStore(old) ==
    [live |-> TRUE,
     mem |-> IF old.freed = <<>> THEN InitialMemory ELSE old.freed,
     freed |-> old.freed]

\* Store::new and linker.instantiate, lines 144-156
NewStore(old) == [live |-> TRUE, mem |-> InitialMemory, freed |-> old.freed]

\* the store goes out of scope when execute_function returns
DropStore(st) == [live |-> FALSE, mem |-> <<>>, freed |-> st.mem]

ExecReturn(r) ==
    /\ epc' = "idle"
    /\ eret' = r
    /\ store' = DropStore(store)

\* abi.rs host_functions: the imports a guest may declare under `env`
HostFunctionNames == {"host_http_get", "host_http_post", "host_log"}

\* add_host_functions: the functions the linker defines under `env`
LinkedHostFunctions == {"host_log", "host_http_get"}

\* execute_function lines 130-161 on a module that declares `imports`:
\* module found, store made, fuel set, module instantiated.
\* linker.instantiate fails on an import the linker does not define; no
\* instance and no guest memory exist then.
ExecBegin(imports) ==
    /\ epc = "idle"
    /\ ecalls < MaxExecCalls
    /\ ecalls' = ecalls + 1
    /\ fuel' = FuelBudget
    /\ IF imports \subseteq LinkedHostFunctions
          THEN /\ store' = NewStore(store)
               /\ epc' = "guest"
               /\ UNCHANGED eret
          ELSE /\ eret' = ErrD("RuntimeError", "Failed to instantiate",
                               <<"unknown import", imports \ LinkedHostFunctions>>)
               /\ UNCHANGED <<store, epc>>
    /\ UNCHANGED <<cpVars, hostVars, rateVars, sbVars, fnVars, abiVars>>

\* a guest step that burns no fuel
GuestStepFree(m) ==
    /\ epc = "guest"
    /\ store' = [store EXCEPT !.mem = m]
    /\ UNCHANGED <<epc, fuel, eret, ecalls, cpVars, hostVars, rateVars, sbVars, fnVars, abiVars>>

\* the guest executes an instruction, which may write memory or a global
GuestStep(m) ==
    /\ epc = "guest"
    /\ fuel > 0
    /\ fuel' = fuel - 1
    /\ store' = [store EXCEPT !.mem = m]
    /\ UNCHANGED <<epc, eret, ecalls, cpVars, hostVars, rateVars, sbVars, fnVars, abiVars>>

\* the guest calls a host import
GuestCallHost ==
    /\ epc = "guest"
    /\ fuel > 0
    /\ fuel' = fuel - 1
    /\ epc' = "host"
    /\ UNCHANGED <<store, eret, ecalls, cpVars, hostVars, rateVars, sbVars, fnVars, abiVars>>

\* the host import returns; host_http_get's call of the guest's alloc burned
\* `burnt` units
HostReturn(burnt) ==
    /\ epc = "host"
    /\ burnt <= fuel
    /\ fuel' = fuel - burnt
    /\ epc' = "guest"
    /\ UNCHANGED <<store, eret, ecalls, cpVars, hostVars, rateVars, sbVars, fnVars, abiVars>>

\* the host import panics (vec! with a negative length) and the panic
\* unwinds out of execute_function
HostPanic ==
    /\ epc = "host"
    /\ ExecReturn(Err("Panic", "capacity overflow"))
    /\ UNCHANGED <<fuel, ecalls, cpVars, hostVars, rateVars, sbVars, fnVars, abiVars>>

\* the guest function returns or traps, lines 195-255
GuestFinish(outcome) ==
    /\ epc = "guest"
    /\ fuel > 0
    /\ fuel' = fuel - 1
    /\ ExecReturn(IF outcome = "returned" THEN OkRes
                  ELSE Err("RuntimeError", "Function execution failed"))
    /\ UNCHANGED <<ecalls, cpVars, hostVars, rateVars, sbVars, fnVars, abiVars>>

\* format!("Function execution failed: {}", e) for the out-of-fuel trap
OutOfFuelError ==
    ErrD("RuntimeError", "Function execution failed", <<"all fuel consumed">>)

\* the fuel is exhausted: the call traps, lines 195-199
OutOfFuel ==
    /\ epc = "guest"
    /\ fuel = 0
    /\ ExecReturn(OutOfFuelError)
    /\ UNCHANGED <<fuel, ecalls, cpVars, hostVars, rateVars, sbVars, fnVars, abiVars>>

\* the steps of an invocation under way
GuestRuns ==
    \/ \E m \in MemValues : GuestStep(m)
    \/ GuestCallHost
    \/ \E burnt \in 0..FuelBudget : HostReturn(burnt)
    \/ HostPanic
    \/ \E outcome \in {"returned", "trapped"} : GuestFinish(outcome)
    \/ OutOfFuel

NextExec ==
    \/ \E imports \in SUBSET HostFunctionNames : ExecBegin(imports)
    \/ \E m \in MemValues : GuestStep(m)
    \/ GuestCallHost
    \/ \E burnt \in 0..FuelBudget : HostReturn(burnt)
    \/ HostPanic
    \/ \E outcome \in {"returned", "trapped"} : GuestFinish(outcome)
    \/ OutOfFuel

InitExec ==
    /\ rootDir = TRUE
    /\ disk = [i \in Ids |-> None]
    /\ CpIdle
    /\ HostIdle
    /\ RateIdle
    /\ SandboxIdle
    /\ epc = "idle" /\ fuel = 0 /\ store = NoStore /\ eret = OkRes /\ ecalls = 0
    /\ FnIdle
    /\ AbiIdle

SpecExec == InitExec /\ [][NextExec]_vars

\* the guest's code is run, and a host import returns (host_http_get's
\* client has a 30 s timeout)
SpecExecFair == SpecExec /\ WF_vars(GuestRuns)

----------------------------------------------------------------------------
(* runtime.rs execute_function, lines 163-255: the guest exports called for
   one invocation, on an instance that has its memory *)

\* `params` of the invocation: empty, one byte, two bytes
ParamSamples == {<<>>, <<5>>, <<5, 6>>}

\* what the guest's linear memory holds when the function has returned:
\* at address 1 a header of 2 and the payload 7, 9; a header of 0;
\* a header of 9, more than the memory holds; a header of 256
GuestMemories ==
    { <<0, 2, 0, 0, 0, 7, 9, 0>>,
      <<0, 0, 0, 0, 0, 7, 9, 0>>,
      <<0, 9, 0, 0, 0, 7, 9, 0>>,
      <<0, 0, 1, 0, 0, 7, 9, 0>> }

\* i32 values a guest export returns as a pointer: null, inside the memory,
\* near its end, past its end, negative
PtrSamples == {0, 1, 6, 8, -1}

\* Memory::read and Memory::write succeed when [addr, addr + n) lies in the
\* memory; `ptr as usize` of a negative i32 lies far beyond it
InMemory(mem, addr, n) == addr >= 0 /\ addr + n <= Len(mem)

\* Memory::read: n bytes from address addr (addresses start at 0)
MemoryRead(mem, addr, n) == [k \in 1..n |-> mem[addr + k]]

\* Memory::write
MemoryWrite(mem, addr, bytes) ==
    [k \in 1..Len(mem) |->
        IF k > addr /\ k <= addr + Len(bytes) THEN bytes[k - addr] ELSE mem[k]]

\* u32::from_le_bytes
U32FromLeBytes(b) == b[1] + 256 * b[2] + 65536 * b[3] + 16777216 * b[4]

GuestCall(name, args) == [name |-> name, args |-> args]

\* the export named by function_name
FunctionName == "search"

\* execute_function returns r; `?` leaves the locals as they are
AbiReturn(r) ==
    /\ apc' = "done"
    /\ aret' = r

\* lines 163-183: alloc is called for non-empty params only, and the params
\* are written where it pointed; the guest's alloc returns ptr or traps
AbiAlloc(outcome, ptr) ==
    /\ apc = "alloc"
    /\ IF params = <<>>
          THEN /\ params_ptr' = 0
               /\ apc' = "call"
               /\ UNCHANGED <<gmem, gcalls, aret>>
          ELSE /\ gcalls' = Append(gcalls, GuestCall("alloc", <<Len(params)>>))
               /\ IF outcome = "trapped"
                     THEN /\ AbiReturn(Err("RuntimeError", "Failed to allocate memory"))
                          /\ UNCHANGED <<params_ptr, gmem>>
                     ELSE IF ~InMemory(gmem, ptr, Len(params))
                     THEN /\ AbiReturn(Err("RuntimeError", "Failed to write params"))
                          /\ UNCHANGED <<params_ptr, gmem>>
                     ELSE /\ params_ptr' = ptr
                          /\ gmem' = MemoryWrite(gmem, ptr, params)
                          /\ apc' = "call"
                          /\ UNCHANGED aret
    /\ UNCHANGED <<params, result_ptr, result_data>>
    /\ UNCHANGED <<cpVars, hostVars, rateVars, sbVars, execVars, fnVars>>

\* lines 185-199: the function is called with (params_ptr, params.len());
\* it returns rptr and leaves the memory as mem, or traps
AbiCall(outcome, rptr, mem) ==
    /\ apc = "call"
    /\ gcalls' = Append(gcalls, GuestCall(FunctionName, <<params_ptr, Len(params)>>))
    /\ IF outcome = "trapped"
          THEN /\ AbiReturn(Err("RuntimeError", "Function execution failed"))
               /\ UNCHANGED <<result_ptr, gmem>>
          ELSE /\ result_ptr' = rptr
               /\ gmem' = mem
               /\ apc' = "read"
               /\ UNCHANGED aret
    /\ UNCHANGED <<params, params_ptr, result_data>>
    /\ UNCHANGED <<cpVars, hostVars, rateVars, sbVars, execVars, fnVars>>

\* lines 201-237: a non-zero result_ptr is read as a 4-byte little-endian
\* size and that many bytes after it, then the guest's dealloc is called
\* with (result_ptr, size + 4); a zero result_ptr is an empty result
AbiReadResult(outcome) ==
    /\ apc = "read"
    /\ IF result_ptr = 0
          THEN /\ result_data' = <<>>
               /\ apc' = "free_params"
               /\ UNCHANGED <<gcalls, aret>>
          ELSE IF ~InMemory(gmem, result_ptr, 4)
          THEN /\ AbiReturn(Err("RuntimeError", "Failed to read result size"))
               /\ UNCHANGED <<result_data, gcalls>>
          ELSE LET size == U32FromLeBytes(MemoryRead(gmem, result_ptr, 4))
               IN  IF ~InMemory(gmem, result_ptr + 4, size)
                      THEN /\ AbiReturn(Err("RuntimeError", "Failed to read result"))
                           /\ UNCHANGED <<result_data, gcalls>>
                      ELSE /\ gcalls' = Append(gcalls,
                                  GuestCall("dealloc", <<result_ptr, size + 4>>))
                           /\ IF outcome = "trapped"
                                 THEN /\ AbiReturn(Err("RuntimeError", "Failed to deallocate"))
                                      /\ UNCHANGED result_data
                                 ELSE /\ result_data' = MemoryRead(gmem, result_ptr + 4, size)
                                      /\ apc' = "free_params"
                                      /\ UNCHANGED aret
    /\ UNCHANGED <<params, params_ptr, result_ptr, gmem>>
    /\ UNCHANGED <<cpVars, hostVars, rateVars, sbVars, execVars, fnVars>>

\* lines 239-254: the params are freed when params_ptr is not 0, and
\* result_data is returned
AbiFreeParams(outcome) ==
    /\ apc = "free_params"
    /\ IF params_ptr # 0
          THEN /\ gcalls' = Append(gcalls,
                      GuestCall("dealloc", <<params_ptr, Len(params)>>))
               /\ AbiReturn(IF outcome = "trapped"
                               THEN Err("RuntimeError", "Failed to deallocate params")
                               ELSE OkRes)
          ELSE /\ AbiReturn(OkRes)
               /\ UNCHANGED gcalls
    /\ UNCHANGED <<params, params_ptr, result_ptr, result_data, gmem>>
    /\ UNCHANGED <<cpVars, hostVars, rateVars, sbVars, execVars, fnVars>>

NextAbi ==
    \/ \E o \in {"returned", "trapped"}, ptr \in PtrSamples : AbiAlloc(o, ptr)
    \/ \E o \in {"returned", "trapped"}, rptr \in PtrSamples, mem \in GuestMemories :
          AbiCall(o, rptr, mem)
    \/ \E o \in {"returned", "trapped"} : AbiReadResult(o)
    \/ \E o \in {"returned", "trapped"} : AbiFreeParams(o)

InitAbi ==
    /\ apc = "alloc"
    /\ params \in ParamSamples
    /\ params_ptr = 0 /\ result_ptr = 0 /\ result_data = <<>>
    /\ gmem = <<0, 0, 0, 0, 0, 0, 0, 0>> /\ gcalls = <<>> /\ aret = OkRes
    /\ rootDir = FALSE
    /\ disk = [i \in Ids |-> None]
    /\ CpIdle
    /\ HostIdle
    /\ RateIdle
    /\ SandboxIdle
    /\ ExecIdle
    /\ FnIdle

SpecAbi == InitAbi /\ [][NextAbi]_vars

----------------------------------------------------------------------------
(* sandbox.rs: one RateLimiter, checked as time passes *)

NextRate == Check \/ Tick

\* RateLimiter::new at time 0
InitRate ==
    /\ rootDir = TRUE
    /\ disk = [i \in Ids |-> None]
    /\ CpIdle
    /\ HostIdle
    /\ tokens = MaxRequestsPerSecond
    /\ last_refill = 0
    /\ now = 0
    /\ checked = OkRes
    /\ granted = [t \in 0..MaxTime |-> 0]
    /\ SandboxIdle
    /\ ExecIdle
    /\ FnIdle
    /\ AbiIdle

SpecRate == InitRate /\ [][NextRate]_vars

----------------------------------------------------------------------------
(* sandbox.rs: HttpSandbox::get and HttpSandbox::post.  A response body of
   n bytes is the set 1..n of its byte positions. *)

\* an admission that parses the url_str and skips validate_url
AdmitParsed(url_str) ==
    IF ~IsSome(UrlParse(url_str)) THEN Err("HttpError", "Invalid URL") ELSE OkRes

\* a policy that lets every url_str through
AdmitAll(url_str) == OkRes

\* Url::parse and validate_url on the url_str of a call
Admit(url_str) ==
    IF ~IsSome(UrlParse(url_str)) THEN Err("HttpError", "Invalid URL")
    ELSE ValidateUrl(Get(UrlParse(url_str)))

\* a ceiling that is never applied
NeverTooLarge(n) == FALSE

TooLarge(n) == n > MaxResponseSize

\* where a 3xx response can point the client
RedirectTargets == {"https://example.com", "http://127.0.0.1:8080/x"}

\* the call returns r; the response is dropped
SandboxReturn(r) ==
    /\ spc' = "idle"
    /\ sret' = r
    /\ slen' = None

\* get(url) or post(url, body), up to the send
SandboxRequest(url_str, post) ==
    /\ spc = "idle"
    /\ scalls < MaxSandboxCalls
    /\ scalls' = scalls + 1
    /\ surl' = url_str
    /\ hops' = 0
    /\ slen' = None
    /\ sread' = FALSE
    /\ IF ~Admit(url_str).ok
          THEN /\ SandboxReturn(Admit(url_str))
               /\ wire' = <<>>
               /\ UNCHANGED <<tokens, last_refill, checked, granted>>
          ELSE /\ RateCheck
               /\ IF checked'.ok
                     THEN /\ wire' = <<url_str>>
                          /\ spc' = "sent"
                          /\ UNCHANGED sret
                     ELSE /\ SandboxReturn(checked')
                          /\ wire' = <<>>
    /\ UNCHANGED <<now, cpVars, hostVars, execVars, fnVars, abiVars>>

\* send().await: the client follows a redirect (Policy::limited), or fails
SandboxRedirect(target) ==
    /\ spc = "sent"
    /\ IF hops < MaxRedirects
          THEN /\ wire' = Append(wire, target)
               /\ hops' = hops + 1
               /\ UNCHANGED <<spc, sret, slen>>
          ELSE /\ SandboxReturn(Err("HttpError", "Request failed"))
               /\ UNCHANGED <<wire, hops>>
    /\ UNCHANGED <<surl, sread, scalls, cpVars, hostVars, rateVars, execVars, fnVars, abiVars>>

\* send().await returns: the error, or the final response's status and
\* Content-Length
SandboxResponse(sent, success, content_length) ==
    /\ spc = "sent"
    /\ IF ~sent THEN SandboxReturn(Err("HttpError", "Request failed"))
       ELSE IF ~success THEN SandboxReturn(Err("HttpError", "HTTP error"))
       ELSE IF IsSome(content_length) /\ TooLarge(Get(content_length))
          THEN SandboxReturn(Err("HttpError", "Response too large"))
       ELSE /\ spc' = "body"
            /\ slen' = content_length
            /\ UNCHANGED sret
    /\ UNCHANGED <<surl, wire, hops, sread, scalls, cpVars, hostVars, rateVars, execVars, fnVars, abiVars>>

\* response.bytes().await: a read error, or a body of `len` bytes, which is
\* the Content-Length when the response had one
SandboxBody(readOk, len) ==
    /\ spc = "body"
    /\ IsSome(slen) => len = Get(slen)
    /\ sread' = TRUE
    /\ IF ~readOk THEN SandboxReturn(Err("HttpError", "Failed to read response"))
       ELSE IF TooLarge(len) THEN SandboxReturn(Err("HttpError", "Response too large"))
       ELSE SandboxReturn(OkVal(1..len))
    /\ UNCHANGED <<surl, wire, hops, scalls, cpVars, hostVars, rateVars, execVars, fnVars, abiVars>>

ContentLengths == {None} \cup {Some(n) : n \in BodyLengths}

\* time passes between calls; the limiter is read only when a call starts
SandboxTick == spc = "idle" /\ now < MaxSandboxTime /\ Tick

NextSandbox ==
    \/ \E u \in SampleUrls, post \in BOOLEAN : SandboxRequest(u, post)
    \/ \E t \in RedirectTargets : SandboxRedirect(t)
    \/ \E sent \in BOOLEAN, success \in BOOLEAN, cl \in ContentLengths :
          SandboxResponse(sent, success, cl)
    \/ \E readOk \in BOOLEAN, len \in BodyLengths : SandboxBody(readOk, len)
    \/ SandboxTick

\* HttpSandbox::with_config
InitSandbox ==
    /\ rootDir = TRUE
    /\ disk = [i \in Ids |-> None]
    /\ CpIdle
    /\ HostIdle
    /\ tokens = MaxRequestsPerSecond
    /\ last_refill = 0
    /\ now = 0
    /\ checked = OkRes
    /\ granted = [t \in 0..MaxTime |-> 0]
    /\ spc = "idle" /\ surl = "" /\ wire = <<>> /\ sret = OkRes
    /\ hops = 0 /\ slen = None /\ sread = FALSE /\ scalls = 0
    /\ ExecIdle
    /\ FnIdle
    /\ AbiIdle

SpecSandbox == InitSandbox /\ [][NextSandbox]_vars

----------------------------------------------------------------------------
(* Steps of a command task, as seen from outside *)

\* task p is given command c in this step
Invokes(p, c) == issued'[p] = issued[p] + 1 /\ cmd'[p] = c

\* task p resumes from `label` in this step
Leaves(p, label) == pc[p] = label /\ pc'[p] # label

NotLoadedErrors == {CmdErr("is not loaded"), Err("RuntimeError", "not loaded")}

----------------------------------------------------------------------------
(* C1: an execute command (search, get_chapters, get_chapter_images,       *)
(* get_languages) that reaches its is-loaded check or execute_function's   *)
(* lookup while its extension id is not in the registry returns a          *)
(* not-loaded error in that step, and guest code only ever runs for an id  *)
(* that is in the registry.                                                *)
C1_ExecuteNotLoaded ==
    [][\A p \in Procs :
          /\ ( /\ Invokes(p, "execute") \/ Leaves(p, "exec_lock")
               /\ ~IsLoaded(modules, arg'[p].id) )
                 => pc'[p] = "idle" /\ ret'[p] \in NotLoadedErrors
          /\ pc'[p] = "guest" => IsLoaded(modules', arg'[p].id)]_vars

\* load(A); execute(A) passes its check; unload(A); execute_function(A) fails
C1_Witness ==
    \E p, q \in Procs :
        /\ p # q
        /\ pc[p] = "idle" /\ cmd[p] = "execute"
        /\ ret[p] = Err("RuntimeError", "not loaded")
        /\ pc[q] = "idle" /\ cmd[q] = "unload" /\ ret[q].ok
        /\ arg[q].id = arg[p].id

(* C3: every id in the loaded registry has its directory, with             *)
(* manifest.json and module.wasm, on disk.                                 *)
C3_LoadedImpliesInstalled ==
    \A i \in Ids :
        IsLoaded(modules, i) =>
            /\ IsSome(disk[i])
            /\ IsSome(Get(disk[i]).manifest)
            /\ IsSome(Get(disk[i]).wasm)

(* C4: a load registers a module only if the manifest checksum it verified *)
(* is "sha256:" followed by the lowercase hex SHA-256 of the registered    *)
(* bytes: no module enters the registry whose bytes differ from the bytes  *)
(* the checksum was computed over.                                         *)
C4_RegisteredBytesMatchChecksum ==
    [][\A p \in Procs :
          (Leaves(p, "load_insert") /\ ret'[p].ok) =>
              Get(ext[p]).manifest.checksum
                  = Sha256Prefix \o Sha256Hex(Get(modules'[Get(ext[p]).id]))]_vars

\* the directory of id holds a valid manifest and a module whose digest is
\* not the manifest's
ChecksumMismatchOnDisk(id) ==
    /\ rootDir
    /\ IsSome(disk[id])
    /\ LoadExtensionInfo(id, Get(disk[id])).msg = "checksum mismatch"

(* C5: a load of an extension whose module.wasm does not match the         *)
(* manifest checksum returns a ValidationError carrying the expected and   *)
(* the actual digest, and leaves the registry as it was.                   *)
C5_MismatchIsValidationError ==
    [][\A p \in Procs :
          (Leaves(p, "load_discover") /\ cmd[p] = "load"
              /\ ChecksumMismatchOnDisk(arg[p].id)) =>
                  /\ pc'[p] = "idle"
                  /\ ret'[p].kind = "ValidationError"
                  /\ ret'[p].detail = LoadExtensionInfo(arg[p].id, Get(disk[arg[p].id])).detail
                  /\ modules' = modules]_vars

(* C6: a load that inserts into the registry does so only when its id is   *)
(* not in the registry.                                                    *)
C6_NoDoubleLoad ==
    [][\A p \in Procs :
          (Leaves(p, "load_insert") /\ cmd[p] = "load" /\ ret'[p].ok) =>
              ~IsLoaded(modules, Get(ext[p]).id)]_vars

(* C7: while the guest function of an execute command runs, the command    *)
(* holds none of the registry mutex, the runtime mutex and the loader      *)
(* mutex.                                                                  *)
C7_NoLockAcrossGuestCall ==
    \A p \in Procs :
        pc[p] = "guest" =>
            /\ modulesLock # p
            /\ runtimeLock # p
            /\ loaderLock # p

\* task p is inside reload(id) of a loaded id, after its unload step
InReloadGap(p, id) ==
    /\ cmd[p] = "reload" /\ arg[p].id = id /\ is_loaded[p]
    /\ pc[p] \in {"reload_load", "load_discover", "load_insert"}

\* load(id) run alone from this state would succeed
Loadable(id) ==
    \E e \in DiscoverExtensions(rootDir, disk) :
        /\ e.id = id
        /\ RuntimeLoadExtension(modules, id, FileAt(disk, e.wasm_path)).res.ok

(* C8: while a reload(id) of a loaded extension is between its unload step *)
(* and its load step, no other command sees id absent from the registry:   *)
(* list_loaded lists it and an execute command is not refused.             *)
C8_ReloadAtomic ==
    [][\A p, q \in Procs, id \in Ids :
          (p # q /\ InReloadGap(p, id) /\ Loadable(id)) =>
              /\ Invokes(q, "list_loaded") => [id |-> id] \in ret'[q].value
              /\ (Invokes(q, "execute") /\ arg'[q].id = id) =>
                     ret'[q] \notin NotLoadedErrors]_vars

(* C9: when reload(id) of a loaded, installed extension fails after its    *)
(* unload step because discovery, compilation or export validation fails,  *)
(* then at its return id is not in the registry and its directory is on    *)
(* disk.                                                                   *)
C9_FailedReloadEndsInstalled ==
    [][\A p \in Procs :
          ( /\ cmd[p] = "reload" /\ is_loaded[p]
            /\ pc[p] \in {"load_discover", "load_insert"}
            /\ pc'[p] = "idle" /\ ~ret'[p].ok ) =>
                /\ ~IsLoaded(modules', arg[p].id)
                /\ IsSome(disk'[arg[p].id])]_vars

(* C2: host_http_get called with a URL the egress policy rejects returns 0 to
   the guest, and no request for it is dispatched. *)
C2_RejectedUrlNotDispatched ==
    /\ \A u \in requests : IsUrlAllowed(u)
    /\ (hpc = "guest" /\ hurl.kind = "text" /\ ~IsUrlAllowed(hurl.text)) => hret = 0

RECURSIVE GrantedIn(_, _)
GrantedIn(t1, t2) == IF t1 > t2 THEN 0 ELSE granted[t1] + GrantedIn(t1 + 1, t2)

(* C10: starting from a full bucket, the checks that return Ok within any
   window shorter than one second never number more than
   max_requests_per_second. *)
C10_AtMostMaxPerSecond ==
    \A t1 \in 0..MaxTime, t2 \in 0..MaxTime :
        (t1 <= t2 /\ t2 - t1 < TicksPerSec) => GrantedIn(t1, t2) <= MaxRequestsPerSecond

(* C11: while less than one full second has passed since the limiter was
   created with capacity N, a check succeeds exactly when fewer than N checks
   have succeeded before it: the first N succeed, and the next fails with
   HttpError "Rate limit exceeded". *)
C11_FirstNSucceed ==
    [][(now < TicksPerSec /\ now' = now /\ granted # <<>>) =>
          IF GrantedIn(0, now) < MaxRequestsPerSecond
             THEN checked' = OkRes /\ GrantedIn(0, now)' = GrantedIn(0, now) + 1
             ELSE /\ checked' = Err("HttpError", "Rate limit exceeded")
                  /\ granted' = granted]_vars

C11_Witness ==
    /\ granted # <<>>
    /\ now < TicksPerSec
    /\ GrantedIn(0, now) = MaxRequestsPerSecond
    /\ checked = Err("HttpError", "Rate limit exceeded")

(* C12: the egress policy applies to redirect targets: the sandbox's client
   sends no request to a URL the policy rejects, whether it is the URL of the
   call or the Location of a 3xx response. *)
C12_RedirectTargetsValidated ==
    \A k \in 1..Len(wire) : IsUrlAllowed(wire[k])

(* C13: get and post send a request only after the URL has parsed, passed
   validate_url and one token has been taken from the bucket; a malformed or
   rejected URL, or an empty bucket, make the call return HttpError with no
   request sent. *)
C13_DispatchAfterChecks ==
    [][(spc = "idle" /\ scalls' = scalls + 1) =>
          LET allowed == IsUrlAllowed(surl')
              available == Refill(tokens, last_refill, now).tokens
          IN  /\ wire' # <<>> =>
                    /\ allowed
                    /\ available > 0
                    /\ tokens' = available - 1
                    /\ wire' = <<surl'>>
              /\ (~allowed \/ available = 0) =>
                    /\ wire' = <<>>
                    /\ spc' = "idle"
                    /\ ~sret'.ok /\ sret'.kind = "HttpError"
              /\ ~allowed => UNCHANGED <<tokens, last_refill>>]_vars

C13_Witness ==
    /\ spc = "idle"
    /\ scalls = MaxRequestsPerSecond + 1
    /\ IsUrlAllowed(surl)
    /\ sret.msg = "Rate limit exceeded"
    /\ wire = <<>>

(* C15: get and post return Ok(bytes) only with a body of at most
   max_response_size bytes; a response that advertises a larger
   Content-Length fails with "Response too large" without its body being
   read, and a body read that is larger fails with the same error. *)
C15_SizeCeiling ==
    [][/\ (spc' = "idle" /\ sret'.ok /\ scalls' > 0) =>
              Cardinality(sret'.value) <= MaxResponseSize
       /\ (spc = "sent" /\ spc' = "body" /\ IsSome(slen')) =>
              Get(slen') <= MaxResponseSize
       /\ (spc = "sent" /\ spc' = "idle" /\ sret'.msg = "Response too large") =>
              ~sread'
       /\ (spc = "body" /\ ~sret'.ok) =>
              sret'.msg \in {"Response too large", "Failed to read response"}]_vars

C15_Witness ==
    /\ spc = "idle"
    /\ sret.msg = "Response too large"
    /\ sread

(* C14: host_http_get never returns to the guest a non-zero pointer to a
   buffer whose payload is longer than max_response_size. *)
C14_HostGetSizeCeiling ==
    hret # 0 => hlen <= MaxResponseSize

(* C19: host imports never trap or abort the guest: whatever pointers and
   lengths the guest passes, host_log and host_http_get return normally. *)
C19_HostImportsReturn ==
    hpc # "panic"

(* C17: execute leaves the loaded registry unchanged on every outcome: no
   step of an execute call, whether the guest returns, traps or runs out of
   fuel or a protocol step fails, changes the loaded ids or their modules. *)
C17_ExecuteLeavesRegistry ==
    [][\A p \in Procs :
          (\/ Invokes(p, "execute")
           \/ Leaves(p, "exec_lock")
           \/ Leaves(p, "exec_cloned")
           \/ Leaves(p, "guest")) => modules' = modules]_vars

C17_Witness ==
    \E p \in Procs :
        /\ pc[p] = "idle" /\ cmd[p] = "execute"
        /\ ret[p] = Err("RuntimeError", "Function execution failed")
        /\ IsLoaded(modules, arg[p].id)

(* C20: at the registry layer unload is idempotent: on every registry,
   unload(id) leaves id absent, a second unload(id) changes nothing more, and
   the entry of every other id is as it was. *)
C20_UnloadIdempotent ==
    \A id \in Ids :
        LET once == RuntimeUnloadExtension(modules, id)
        IN  /\ ~IsLoaded(once, id)
            /\ RuntimeUnloadExtension(once, id) = once
            /\ \A j \in Ids \ {id} : once[j] = modules[j]

C20_Witness ==
    \E p \in Procs :
        /\ pc[p] = "idle" /\ cmd[p] = "unload" /\ ret[p].ok
        /\ ~IsLoaded(modules, arg[p].id)
        /\ \E j \in Ids \ {arg[p].id} : IsLoaded(modules, j)

(* C16: every execute call terminates: a call starts with a fresh budget of
   fuel, no step of the call adds fuel, a guest that has used it all ends
   with RuntimeError, and every call under way returns. *)
C16_ExecuteTerminates ==
    /\ [][/\ (epc = "idle" /\ epc' # "idle") => fuel' = FuelBudget
          /\ (epc \in {"guest", "host"}) => fuel' <= fuel
          /\ (epc = "guest" /\ fuel = 0) =>
                (epc' = "idle" /\ eret' = OutOfFuelError
                    /\ eret'.kind = "RuntimeError")]_vars
    /\ (epc \in {"guest", "host"}) ~> (epc = "idle")

C16_Witness ==
    /\ epc = "idle"
    /\ fuel = 0
    /\ eret = OutOfFuelError

(* C18: each execute call runs in a fresh store and instance: a call starts
   from the module's initial memory and globals, whatever an earlier call of
   the same extension wrote to its own. *)
C18_FreshStore ==
    [][(epc = "idle" /\ epc' = "guest") =>
          (store'.live /\ store'.mem = InitialMemory)]_vars

C18_Witness ==
    /\ epc = "guest"
    /\ fuel = FuelBudget
    /\ store.freed = WrittenMemory
    /\ store.mem = InitialMemory

(* C21: when uninstall(id) returns ok, id is not in the loaded registry and
   discovery yields no descriptor with that id. *)
C21_UninstallRemoves ==
    [][\A p \in Procs :
          (Leaves(p, "uninstall_remove") /\ ret'[p].ok) =>
              /\ ~IsLoaded(modules', arg[p].id)
              /\ \A e \in DiscoverExtensions(rootDir', disk') : e.id # arg[p].id]_vars

(* C22: install_from_file validates the manifest before copying: an install
   that returns ok has written a manifest that satisfies the manifest
   invariants, and an install that returns an error has changed nothing
   under the extensions directory. *)
C22_InstallValidatesManifest ==
    [][\A p \in Procs :
          Invokes(p, "install") =>
              IF ret'[p].ok
                 THEN Validate(Get(Get(disk'[arg'[p].id]).manifest)).ok
                 ELSE disk' = disk /\ rootDir' = rootDir]_vars

\* the directory of id holds what install_from_file accepts: a manifest and a
\* module whose checksum verifies
InstalledFromFile(id) ==
    /\ rootDir
    /\ IsSome(disk[id])
    /\ IsSome(Get(disk[id]).manifest)
    /\ IsSome(Get(disk[id]).wasm)
    /\ VerifyChecksum(Get(Get(disk[id]).manifest), Get(disk[id]).wasm).ok

(* C23: list_installed returns exactly one entry for each extension that
   install_from_file put on disk, with its id and with loaded telling whether
   it is in the registry, and list_loaded returns exactly the loaded ids. *)
C23_ListsReflectInstallAndLoad ==
    [][\A p \in Procs :
          /\ Leaves(p, "list_installed_runtime") =>
                ret'[p].value = {ExtensionInfo(i, TRUE, IsLoaded(modules, i)) :
                                    i \in {j \in Ids : InstalledFromFile(j)}}
          /\ Invokes(p, "list_loaded") =>
                ret'[p].value = {[id |-> i] : i \in {j \in Ids : IsLoaded(modules, j)}}]_vars


----------------------------------------------------------------------------
(* manifest.rs, loader.rs and sandbox.rs: functions applied on their own.
   The initial state holds the function and its arguments; the one step
   applies the function. *)

ManifestOf(name, version, type, checksum, exports) ==
    [name |-> name, version |-> version, extension_type |-> type,
     checksum |-> checksum, exports |-> exports]

UpperHexDigits == <<"0", "1", "2", "3", "4", "5", "6", "7", "8", "9",
                    "A", "B", "C", "D", "E", "F">>

\* the digest written in uppercase, as a manifest may carry it
UpperHex(s) ==
    [k \in 1..Len(s) |-> UpperHexDigits[CHOOSE j \in 1..16 : HexDigits[j] = s[k]]]

\* checksum fields: the digest of WasmGood in lowercase and in uppercase,
\* the digest of another file, the digest without the prefix, the prefix
\* followed by text that is not hex, and the prefix alone
ChecksumSamples ==
    {Sha256Prefix \o Sha256Hex(WasmGood),
     Sha256Prefix \o UpperHex(Sha256Hex(WasmGood)),
     Sha256Prefix \o Sha256Hex(WasmGood2),
     Sha256Hex(WasmGood),
     Sha256Prefix \o <<"z", "z">>,
     Sha256Prefix}

ManifestSamples ==
    {ManifestOf(n, v, t, c, e) :
        n \in {"", "a"}, v \in {<<"1", ".", "0">>, <<"1">>},
        t \in {"manga", "anime", "comic", "invalid"},
        c \in ChecksumSamples,
        e \in [search : BOOLEAN, get_chapters : BOOLEAN,
               get_chapter_images : BOOLEAN, is_multi_language : BOOLEAN]}

\* what a subdirectory of the extensions directory may hold
DirSamples ==
    {None,
     Dir(Some(Manifest("a", WasmGood, "manga")), Some(WasmGood)),
     Dir(Some(Manifest("b", WasmGood2, "anime")), Some(WasmGood2)),
     Dir(Some(Manifest("a", WasmGood, "manga")), Some(WasmGood2)),
     Dir(Some(Manifest("a", WasmGood, "invalid")), Some(WasmGood)),
     Dir(Some(ManifestOf("a", <<"1">>, "manga", Sha256Prefix \o Sha256Hex(WasmGood),
                         [search |-> TRUE, get_chapters |-> FALSE,
                          get_chapter_images |-> FALSE, is_multi_language |-> FALSE])),
         Some(WasmGood)),
     Dir(Some(Manifest("a", WasmGood, "manga")), None),
     Dir(None, Some(WasmGood)),
     Dir(None, None)}

\* hosts as Url::host_str() serialises them: a domain, an IPv4 address in
\* dotted decimal, an IPv6 address in brackets
HostSamples ==
    {HostExample,
     <<"l", "o", "c", "a", "l", "h", "o", "s", "t">>,
     <<"1", "2", "7", ".", "0", ".", "0", ".", "1">>,
     <<"1", "2", "7", ".", "1", ".", "2", ".", "3">>,
     <<"0", ".", "0", ".", "0", ".", "0">>,
     <<"0", ".", "1", ".", "2", ".", "3">>,
     <<"1", "0", ".", "0", ".", "0", ".", "1">>,
     <<"1", "7", "2", ".", "1", "6", ".", "0", ".", "1">>,
     <<"1", "7", "2", ".", "3", "2", ".", "0", ".", "1">>,
     <<"1", "9", "2", ".", "1", "6", "8", ".", "1", ".", "1">>,
     <<"1", "6", "9", ".", "2", "5", "4", ".", "1", "6", "9", ".", "2", "5", "4">>,
     <<"1", "0", "0", ".", "6", "4", ".", "0", ".", "1">>,
     <<"1", "9", "2", ".", "0", ".", "2", ".", "1">>,
     <<"2", "5", "5", ".", "2", "5", "5", ".", "2", "5", "5", ".", "2", "5", "5">>,
     <<"8", ".", "8", ".", "8", ".", "8">>,
     <<"[", ":", ":", "1", "]">>,
     <<"[", ":", ":", "]">>,
     <<"[", "f", "e", "8", "0", ":", ":", "1", "]">>,
     <<"[", "f", "c", "0", "0", ":", ":", "1", "]">>,
     <<"[", "2", "0", "0", "1", ":", ":", "1", "]">>}

\* parsed URLs: scheme(), host_str() and port()
UrlSamples ==
    [scheme : {"http", "https", "ftp", "file", "ws"},
     host : {None} \cup {Some(h) : h \in HostSamples},
     port : {None, Some(8080), Some(22), Some(6379)}]

\* text URLs whose host is an IPv6 address
Ipv6SampleUrls ==
    {"http://[::]", "https://[fe80::1]:8080", "http://[fc00::1]", "http://[2001::1]"}

\* the function applied and its arguments; the step has not been taken
Pending(op) == fop = op /\ fout = <<>>

\* the step: the result is stored and nothing else changes
Applied(result) ==
    /\ fout' = <<result>>
    /\ UNCHANGED <<fop, fin>>
    /\ UNCHANGED <<disk, modules, runtimeLock, loaderLock, modulesLock,
                   pc, cmd, arg, ext, is_loaded, module, ret, issued>>
    /\ UNCHANGED <<hostVars, rateVars, sbVars, execVars, abiVars>>

ApplyValidate ==
    /\ Pending("validate")
    /\ Applied(Validate(fin[1]))
    /\ UNCHANGED rootDir

ApplyVerifyChecksum ==
    /\ Pending("verify_checksum")
    /\ Applied(VerifyChecksum(fin[1], fin[2]))
    /\ UNCHANGED rootDir

ApplyValidateUrl ==
    /\ Pending("validate_url")
    /\ Applied(ValidateUrl(fin[1]))
    /\ UNCHANGED rootDir

ApplyIsUrlAllowed ==
    /\ Pending("is_url_allowed")
    /\ Applied(IsUrlAllowed(fin[1]))
    /\ UNCHANGED rootDir

\* discover_extensions on the directory of the state: a missing root is
\* created
ApplyDiscover ==
    /\ Pending("discover")
    /\ Applied(OkVal(DiscoverExtensions(rootDir, disk)))
    /\ rootDir' = TRUE

NextFn ==
    \/ ApplyValidate
    \/ ApplyVerifyChecksum
    \/ ApplyValidateUrl
    \/ ApplyIsUrlAllowed
    \/ ApplyDiscover

InitFn ==
    /\ fout = <<>>
    /\ \/ /\ fop = "validate"
          /\ \E m \in ManifestSamples : fin = <<m>>
          /\ rootDir = FALSE /\ disk = [i \in Ids |-> None]
       \/ /\ fop = "verify_checksum"
          /\ \E c \in ChecksumSamples, w \in {None} \cup {Some(x) : x \in WasmFiles} :
                fin = <<ManifestOf("a", <<"1", ".", "0">>, "manga", c,
                                   [search |-> TRUE, get_chapters |-> FALSE,
                                    get_chapter_images |-> FALSE,
                                    is_multi_language |-> FALSE]), w>>
          /\ rootDir = FALSE /\ disk = [i \in Ids |-> None]
       \/ /\ fop = "validate_url"
          /\ \E u \in UrlSamples : fin = <<u>>
          /\ rootDir = FALSE /\ disk = [i \in Ids |-> None]
       \/ /\ fop = "is_url_allowed"
          /\ \E t \in SampleUrls \cup Ipv6SampleUrls : fin = <<t>>
          /\ rootDir = FALSE /\ disk = [i \in Ids |-> None]
       \/ /\ fop = "discover"
          /\ rootDir \in BOOLEAN
          /\ disk \in [Ids -> DirSamples]
          /\ ~rootDir => disk = [i \in Ids |-> None]
          /\ fin = <<rootDir, disk>>
    /\ CpIdle
    /\ HostIdle
    /\ RateIdle
    /\ SandboxIdle
    /\ ExecIdle
    /\ AbiIdle

SpecFn == InitFn /\ [][NextFn]_vars

IsLowerHex(s) == \A k \in 1..Len(s) : \E j \in 1..16 : HexDigits[j] = s[k]

\* the text of the checksum field after "sha256:"
ChecksumSuffix(c) == SubSeq(c, Len(Sha256Prefix) + 1, Len(c))

(* C24: validate returns ok exactly when the name is non-empty, the version
   contains a dot, the type is manga, anime or comic, the checksum is
   "sha256:" followed by lowercase hex, and at least one of the exports
   search, get_chapters, get_chapter_images is set; otherwise it returns a
   ValidationError. *)
C24_ValidateIffWellFormed ==
    (fop = "validate" /\ fout # <<>>) =>
        LET m == fin[1]
            r == fout[1]
        IN  /\ r.ok <=>
                  /\ m.name # ""
                  /\ Contains(m.version, ".")
                  /\ m.extension_type \in {"manga", "anime", "comic"}
                  /\ StartsWith(m.checksum, Sha256Prefix)
                  /\ IsLowerHex(ChecksumSuffix(m.checksum))
                  /\ (m.exports.search \/ m.exports.get_chapters
                          \/ m.exports.get_chapter_images)
            /\ ~r.ok => r.kind = "ValidationError"

\* str::to_lowercase on text made of hex digits and other ASCII characters
ToLower(s) ==
    [k \in 1..Len(s) |->
        IF \E j \in 1..16 : UpperHexDigits[j] = s[k]
           THEN HexDigits[CHOOSE j \in 1..16 : UpperHexDigits[j] = s[k]]
           ELSE s[k]]

(* C25, as stated: verify_checksum on a readable file returns ok exactly when
   the text after "sha256:", lowercased, equals the lowercase hex digest of
   the file, and a ValidationError otherwise. *)
C25_VerifyChecksumCaseNormalised ==
    (fop = "verify_checksum" /\ fout # <<>> /\ IsSome(fin[2])) =>
        LET c == fin[1].checksum
            r == fout[1]
        IN  /\ r.ok <=> /\ StartsWith(c, Sha256Prefix)
                        /\ ToLower(ChecksumSuffix(c)) = Sha256Hex(Get(fin[2]))
            /\ ~r.ok => r.kind = "ValidationError"

(* C25, amended: verify_checksum on a readable file returns ok exactly when
   the text after "sha256:" equals, character for character, the lowercase
   hex digest of the file, and a ValidationError otherwise; a digest written
   in uppercase is a mismatch. *)
C25_VerifyChecksumExact ==
    (fop = "verify_checksum" /\ fout # <<>> /\ IsSome(fin[2])) =>
        LET c == fin[1].checksum
            r == fout[1]
        IN  /\ r.ok <=> /\ StartsWith(c, Sha256Prefix)
                        /\ ChecksumSuffix(c) = Sha256Hex(Get(fin[2]))
            /\ ~r.ok => r.kind = "ValidationError"

\* the manifest carries the digest of the file in uppercase and
\* verify_checksum reports a mismatch
C25_Witness ==
    /\ fop = "verify_checksum" /\ fout # <<>> /\ IsSome(fin[2])
    /\ fin[1].checksum = Sha256Prefix \o UpperHex(Sha256Hex(Get(fin[2])))
    /\ ~fout[1].ok /\ fout[1].kind = "ValidationError"
    /\ fout[1].msg = "checksum mismatch"

(* C26: the registry's load_extension(id, wasm_path) on a file that compiles
   succeeds and registers the module exactly when the module exports alloc,
   dealloc and at least one of extension_search, extension_get_chapters,
   extension_get_chapter_images, and otherwise returns a ValidationError and
   leaves the registry unchanged; on a missing file or a file that does not
   compile it returns a LoadError and leaves the registry unchanged. *)
C26_RegistryLoad ==
    [][\A p \in Procs :
          Leaves(p, "load_insert") =>
              LET e == Get(ext[p])
                  file == FileAt(disk, e.wasm_path)
              IN  IF ~IsSome(file) \/ ~IsSome(Compile(Get(file)))
                     THEN /\ ~ret'[p].ok /\ ret'[p].kind = "LoadError"
                          /\ modules' = modules
                  ELSE IF /\ {"alloc", "dealloc"} \subseteq Get(Compile(Get(file))).funcs
                          /\ Get(Compile(Get(file))).funcs
                                 \cap {"extension_search", "extension_get_chapters",
                                       "extension_get_chapter_images"} # {}
                     THEN /\ ret'[p].ok
                          /\ modules' = [modules EXCEPT ![e.id] = file]
                  ELSE /\ ~ret'[p].ok /\ ret'[p].kind = "ValidationError"
                       /\ modules' = modules]_vars

\* a load of a module that compiles and lacks dealloc has returned its
\* ValidationError, and nothing is registered
C26_Witness ==
    \E p \in Procs :
        /\ cmd[p] = "load" /\ pc[p] = "idle"
        /\ ret[p] = Err("ValidationError", "Module must export 'dealloc' function")
        /\ ~IsLoaded(modules, arg[p].id)

\* the host a URL names: an IPv6 literal is written in brackets in the URL
HostAddress(h) ==
    IF Len(h) >= 2 /\ h[1] = "[" /\ h[Len(h)] = "]" THEN SubSeq(h, 2, Len(h) - 1) ELSE h

\* the rules of the egress policy on a parsed URL, read on the host it names
PolicyAllows(u) ==
    /\ u.scheme \in {"http", "https"} /\ u.scheme \notin BlockedSchemes
    /\ IsSome(u.host)
    /\ LET h == HostAddress(Get(u.host))
       IN  /\ h # <<>>
           /\ h # <<"l", "o", "c", "a", "l", "h", "o", "s", "t">>
           /\ h \notin {<<"1", "2", "7", ".", "0", ".", "0", ".", "1">>, <<":", ":", "1">>,
                        <<"0", ".", "0", ".", "0", ".", "0">>, <<":", ":">>}
           /\ ~StartsWith(h, Chars127) /\ ~StartsWith(h, Chars0)
           /\ ~(IsSome(ParseIpAddr(h)) /\ IsPrivateIp(Get(ParseIpAddr(h))))
    /\ ~(IsSome(u.port) /\ Get(u.port) \in BlockedPorts)

(* C27: is_url_allowed(u) is true exactly when u parses, its scheme is http
   or https, its host is present, non-empty, not localhost, none of the
   literals 127.0.0.1, ::1, 0.0.0.0 and ::, does not start with "127." or
   "0.", is not an IP literal in a blocked range, and its explicit port is
   not a blocked port; validate_url accepts a parsed URL under the same
   conditions. *)
C27_AllowedIffPolicy ==
    /\ (fop = "is_url_allowed" /\ fout # <<>>) =>
          (fout[1] <=> /\ IsSome(UrlParse(fin[1]))
                       /\ PolicyAllows(Get(UrlParse(fin[1]))))
    /\ (fop = "validate_url" /\ fout # <<>>) =>
          (fout[1].ok <=> PolicyAllows(fin[1]))

\* the host is an IPv6 literal in brackets whose address is loopback,
\* unspecified, unique-local or link-local
BlockedIpv6Host(host) ==
    /\ IsSome(host)
    /\ HostAddress(Get(host)) # Get(host)
    /\ IsSome(ParseIpAddr(HostAddress(Get(host))))
    /\ ~Get(ParseIpAddr(HostAddress(Get(host)))).v4
    /\ IsPrivateIp(Get(ParseIpAddr(HostAddress(Get(host)))))

(* C28: a URL whose host is a bracketed IPv6 literal that is loopback,
   unspecified, unique-local or link-local (http://[::1], for one) is
   rejected: is_url_allowed returns false for it, and validate_url, which
   get and post run before any request, returns an error. *)
C28_BlockedIpv6Rejected ==
    /\ (/\ fop = "is_url_allowed" /\ fout # <<>>
        /\ IsSome(UrlParse(fin[1]))
        /\ BlockedIpv6Host(Get(UrlParse(fin[1])).host)) => ~fout[1]
    /\ (fop = "validate_url" /\ fout # <<>> /\ BlockedIpv6Host(fin[1].host)) =>
          ~fout[1].ok

\* the subdirectory holds a manifest that validates and a module whose
\* checksum verifies
Discoverable(files) ==
    /\ IsSome(files.manifest)
    /\ Validate(Get(files.manifest)).ok
    /\ IsSome(files.wasm)
    /\ VerifyChecksum(Get(files.manifest), files.wasm).ok

(* C29: discover returns ok with one descriptor for exactly the
   subdirectories whose manifest is present and validates, whose module.wasm
   exists and whose checksum verifies; the others are skipped and do not
   abort the enumeration; a missing root directory is created and gives the
   empty list; the directories are left as they were. *)
C29_DiscoverExactly ==
    (fop = "discover" /\ fout # <<>>) =>
        LET root == fin[1]
            dsk == fin[2]
            r == fout[1]
        IN  /\ r.ok
            /\ rootDir
            /\ disk = dsk
            /\ r.value =
                  IF ~root THEN {}
                  ELSE {[id |-> Get(Get(dsk[d]).manifest).name,
                         manifest |-> Get(Get(dsk[d]).manifest),
                         wasm_path |-> d, installed |-> TRUE] :
                            d \in {x \in Ids : IsSome(dsk[x]) /\ Discoverable(Get(dsk[x]))}}

\* discover has returned one descriptor, for the one subdirectory that
\* checks out, and has skipped the other, whose checksum does not verify
C29_Witness ==
    /\ fop = "discover" /\ fout # <<>>
    /\ \E d, x \in Ids :
          /\ IsSome(fin[2][d]) /\ Discoverable(Get(fin[2][d]))
          /\ IsSome(fin[2][x]) /\ IsSome(Get(fin[2][x]).manifest)
          /\ IsSome(Get(fin[2][x]).wasm)
          /\ ~VerifyChecksum(Get(Get(fin[2][x]).manifest), Get(fin[2][x]).wasm).ok
          /\ Cardinality(fout[1].value) = 1
          /\ \A e \in fout[1].value : e.wasm_path = d

(* C30: the host binds host_log, host_http_get and host_http_post under env
   for every execute call, so that a module importing any of the three,
   env.host_http_post included, instantiates and its function is called. *)
C30_HostImportsBound ==
    [][(epc = "idle" /\ ecalls' = ecalls + 1) =>
          (epc' = "guest" /\ store'.live)]_vars

----------------------------------------------------------------------------
\* the invocation has returned Ok
AbiSucceeded == apc = "done" /\ aret.ok

\* the size held by the header at result_ptr
ResultSize == U32FromLeBytes(MemoryRead(gmem, result_ptr, 4))

(* C31: an invocation with non-empty params and a non-zero result pointer
   that returns Ok has called, in this order, alloc(params.len()), the
   function with (params_ptr, params.len()), dealloc(result_ptr, size + 4)
   and dealloc(params_ptr, params.len()), and returns exactly the size bytes
   that lie at result_ptr + 4. *)
C31_GuestCallsInOrder ==
    (AbiSucceeded /\ params # <<>> /\ result_ptr # 0) =>
        /\ gcalls = << GuestCall("alloc", <<Len(params)>>),
                       GuestCall(FunctionName, <<params_ptr, Len(params)>>),
                       GuestCall("dealloc", <<result_ptr, ResultSize + 4>>),
                       GuestCall("dealloc", <<params_ptr, Len(params)>>) >>
        /\ result_data = MemoryRead(gmem, result_ptr + 4, ResultSize)

\* positions in the calls made at which `call` stands
CallsOf(call) == {k \in 1..Len(gcalls) : gcalls[k] = call}

(* C32: an invocation that returns Ok with non-empty params, whatever
   pointer alloc returned (0 included), has called
   dealloc(params_ptr, params.len()) exactly once; with empty params it has
   called neither alloc nor a dealloc of the params, and the function
   received (0, 0). *)
C32_ParamsFreedOnce ==
    AbiSucceeded =>
        IF params # <<>>
           THEN Cardinality(CallsOf(GuestCall("dealloc", <<params_ptr, Len(params)>>))) = 1
           ELSE /\ \A k \in 1..Len(gcalls) : gcalls[k].name # "alloc"
                /\ CallsOf(GuestCall("dealloc", <<params_ptr, Len(params)>>)) = {}
                /\ CallsOf(GuestCall(FunctionName, <<0, 0>>)) # {}

----------------------------------------------------------------------------
(* sandbox.rs: one RateLimiter, checked and reset as time passes *)

\* checks granted that a run with resets is followed for
MaxGrants == 6

\* RateLimiter::reset, as HttpSandbox::reset_rate_limiter calls it
Reset ==
    /\ GrantedIn(0, MaxTime) < MaxGrants
    /\ tokens' = MaxRequestsPerSecond
    /\ last_refill' = now
    /\ UNCHANGED <<now, checked, granted, cpVars, hostVars, sbVars, execVars, fnVars, abiVars>>

SpecRateReset == InitRate /\ [][Check \/ Tick \/ Reset]_vars

(* C33: on each check the bucket is refilled exactly when at least one full
   second has elapsed since last_refill, to min(capacity, tokens + capacity
   times the whole seconds elapsed) with last_refill set to now, and
   otherwise tokens and last_refill are left alone by the refill; then the
   check takes exactly one token when it succeeds and none when it fails. *)
C33_RefillThenConsume ==
    [][(now' = now /\ <<checked', granted'>> # <<checked, granted>>) =>
          LET elapsed == now - last_refill
              full == elapsed >= TicksPerSec
              t == IF full
                      THEN Min(MaxRequestsPerSecond,
                               tokens + MaxRequestsPerSecond * (elapsed \div TicksPerSec))
                      ELSE tokens
          IN  /\ last_refill' = IF full THEN now ELSE last_refill
              /\ checked'.ok <=> t > 0
              /\ tokens' = IF checked'.ok THEN t - 1 ELSE t
              /\ granted'[now] = granted[now] + (IF checked'.ok THEN 1 ELSE 0)]_vars

\* a check made more than a second after the bucket ran dry has refilled it
\* and taken one token
C33_Witness ==
    /\ granted # <<>>
    /\ now >= TicksPerSec
    /\ last_refill = now
    /\ GrantedIn(0, TicksPerSec - 1) = MaxRequestsPerSecond
    /\ granted[now] = 1
    /\ tokens = MaxRequestsPerSecond - 1
    /\ checked = OkRes

(* C37: in every reachable state of the rate limiter, under any sequence of
   check and reset at any times, 0 <= tokens <= max_requests_per_second, and
   reset sets tokens to max_requests_per_second. *)
C37_TokensInRange ==
    /\ [](tokens \in 0..MaxRequestsPerSecond)
    /\ [][(now' = now /\ UNCHANGED <<checked, granted>>) =>
             tokens' = MaxRequestsPerSecond]_vars

\* a reset made within the first second, after a check was refused, has
\* filled the bucket
C37_Witness ==
    /\ granted # <<>>
    /\ now \in 1..(TicksPerSec - 1)
    /\ last_refill = now
    /\ tokens = MaxRequestsPerSecond
    /\ checked = Err("HttpError", "Rate limit exceeded")

(* C38, as stated: a sandbox request whose URL is malformed or rejected by
   the egress policy leaves the rate limiter unchanged, and every request
   that passes the policy consumes exactly one token, whatever happens to it
   later. *)
C38_EveryAdmittedConsumes ==
    [][/\ (spc = "idle" /\ scalls' = scalls + 1) =>
             IF IsUrlAllowed(surl')
                THEN tokens' = Refill(tokens, last_refill, now).tokens - 1
                ELSE UNCHANGED <<tokens, last_refill>>
       /\ (spc # "idle") => UNCHANGED <<tokens, last_refill>>]_vars

(* C38, amended: a sandbox request whose URL is malformed or rejected by the
   egress policy leaves the rate limiter unchanged; a request that passes
   the policy consumes exactly one token when the limiter has one after its
   refill, and keeps it whether the request later fails on transport, status
   or size; when the limiter has none the request fails with "Rate limit
   exceeded" and no token is consumed. *)
C38_AdmittedAndGrantedConsumes ==
    [][/\ (spc = "idle" /\ scalls' = scalls + 1) =>
             LET available == Refill(tokens, last_refill, now).tokens
             IN  IF ~IsUrlAllowed(surl') THEN UNCHANGED <<tokens, last_refill>>
                 ELSE IF available > 0 THEN tokens' = available - 1
                 ELSE /\ tokens' = 0
                      /\ sret' = Err("HttpError", "Rate limit exceeded")
       /\ (spc # "idle") => UNCHANGED <<tokens, last_refill>>]_vars

\* the first request passed the policy and took a token; the second was
\* rejected by the policy and took none
C38_Witness ==
    /\ spc = "idle" /\ scalls = 2 /\ now = 0
    /\ ~IsUrlAllowed(surl)
    /\ ~sret.ok /\ sret.msg # "Rate limit exceeded"
    /\ tokens = MaxRequestsPerSecond - 1
    /\ last_refill = 0

----------------------------------------------------------------------------
(* commands/*.rs: the commands, with uninstall given any id string *)

SpecPaths ==
    Init /\ [][Next \/ \E p \in Procs, id \in PathIds : UninstallCheck(p, id)]_vars

(* C36: uninstall(id) and install_from_file affect only the extension they
   name: for every id string, the empty string and names with path
   separators or ".." included, uninstall(id) leaves the installed files and
   the loaded state of every other extension unchanged and removes nothing
   outside <extensions_dir>/<id>; install_from_file changes the files of the
   extension its manifest names and nothing else. *)
C36_OnlyTheNamedExtension ==
    [][\A p \in Procs :
          /\ Leaves(p, "uninstall_remove") =>
                \A j \in Ids \ {arg[p].id} :
                    disk'[j] = disk[j] /\ modules'[j] = modules[j]
          /\ Invokes(p, "install") =>
                \A j \in Ids \ {arg'[p].id} :
                    disk'[j] = disk[j] /\ modules'[j] = modules[j]]_vars

(* C35: the module bytes that load(id) compiles and registers are the bytes
   whose checksum was verified for that load: under any interleaving with
   install_from_file or uninstall on the same id, a module enters the
   registry only if it verifies against the manifest that load read. *)
C35_RegistersVerifiedBytes ==
    [][\A p \in Procs :
          (Leaves(p, "load_insert") /\ modules' # modules) =>
              VerifyChecksum(Get(ext[p]).manifest, modules'[Get(ext[p]).id]).ok]_vars

----------------------------------------------------------------------------
(* commands/*.rs: the commands under a fair scheduler.  A task suspended at
   an await is resumed once the mutex it waits for is free (tokio's mutex is
   first-in first-out), and the guest's run ends. *)

\* task p goes on from the await it is suspended at
Continue(p) ==
    \/ LoadDiscover(p)
    \/ LoadInsert(p)
    \/ ReloadUnload(p)
    \/ ReloadLoad(p)
    \/ UninstallUnload(p)
    \/ UninstallRemove(p)
    \/ ListInstalledRuntime(p)
    \/ ExecResolve(p)
    \/ ExecStart(p)
    \/ \E o \in GuestOutcomes : GuestReturn(p, o)

SpecFair == Spec /\ \A p \in Procs : WF_pc(Continue(p))

(* C34: no interleaving of the commands deadlocks: a task takes the loader
   mutex only while it holds no runtime mutex (the two nest in the order
   loader, then runtime), no task waits for a mutex it holds, and every
   command under way returns, its mutexes released, provided the guest's
   calls end. *)
C34_NoDeadlock ==
    /\ [][\A p \in Procs :
             /\ (loaderLock # p /\ loaderLock' = p) =>
                   (runtimeLock # p /\ runtimeLock' # p /\ modulesLock' # p)
             /\ (pc[p] # "idle" /\ pc'[p] = "idle") =>
                   (loaderLock' # p /\ runtimeLock' # p /\ modulesLock' # p)]_vars
    /\ \A p \in Procs : (pc[p] # "idle") ~> (pc[p] = "idle")

\* one task holds the loader mutex and waits for the runtime mutex, which
\* the other holds over its guest call
C34_Witness ==
    \E p, q \in Procs :
        /\ pc[p] = "list_installed_runtime" /\ loaderLock = p
        /\ pc[q] = "guest" /\ runtimeLock = q

====
